---- MODULE Spec2Model ----
(***************************************************************************)
(* Model of the OCR-to-LLM grounding pipeline of ocr-api-backend:          *)
(*   services/easyocr_service.py    EasyOCRService                         *)
(*   services/gemini_service_v3.py  HybridGeminiService                    *)
(*   services/gemini_service.py     GeminiService                          *)
(*   main.py                        process_document                       *)
(*                                                                         *)
(* Texts are sequences of one-character strings.  Confidences are integers *)
(* in thousandths (0.3 is 300).  Coordinates are integer pixels.           *)
(***************************************************************************)
EXTENDS Integers, Sequences, FiniteSets, Bags, TLC

\* ---------------------------------------------------------------- bounds
\* Largest number of pages the rasterizer returns for one document.
MaxPages == 2
\* Largest number of raw tokens the OCR engine returns for one document.
MaxTokens == 2
\* Largest number of units of an arbitrary response text.
MaxTextLen == 4
\* Deepest nesting of the JSON objects embedded in prose.
MaxDepth == 2
\* Number of requests the process serves, concurrently or one after another.
NumRequests == 2
\* Largest number of HybridGeminiService instances the process constructs.
MaxServices == 1
\* Largest coordinate of the arbitrary quadrilaterals.
MaxCoord == 2
\* Largest number of transactions of a bank statement returned by the model.
MaxTransactions == 1

\* ------------------------------------------------------- program constants
\* easyocr_service.py:99   confidence > 0.3, in thousandths.
ConfThreshold == 300

VARIABLES
    \* --- EasyOCRService.extract_from_pdf / format_for_llm on one document
    ocr_pc,          \* position in process_pdf_for_llm
    ocr_images,      \* images returned by convert_from_bytes
    ocr_raw,         \* what reader.readtext returned, page by page
    all_pages_data,  \* extract_from_pdf's all_pages_data
    formatted_data,  \* format_for_llm's result
    coord_lines,     \* _format_coordinate_info's coord_lines
    hybrid_prompt,   \* what _create_hybrid_prompt states in the prompt
    \* --- the response resolver of process_document_hybrid on one reply
    json_pc,         \* position in lines 97-125 of gemini_service_v3.py
    json_shape,      \* how the reply was put together: prose, object, prose
    reply,           \* response.text
    json_schema,     \* the name of the schema argument
    json_result,     \* what _extract_json_from_response returned or raised
    json_outcome,    \* what the operation returned or raised
    \* --- one server process and the requests it serves
    is_configured,   \* the class attribute _is_configured of each service class
    configure_calls, \* how often genai.configure has been called
    gemini_service,  \* main.py's module-level gemini_service
    services,        \* the HybridGeminiService instances: each one's ocr_service
    disk,            \* the temp files that exist
    req,             \* each request: its position, locals and outcome
    \* --- one call of a function of the program on its own
    call_pc,         \* "idle", "called" or "returned"
    call_args,       \* the arguments of the call
    call_result      \* what the call returned

ocr_vars == <<ocr_pc, ocr_images, ocr_raw, all_pages_data, formatted_data, coord_lines,
              hybrid_prompt>>

json_vars == <<json_pc, json_shape, reply, json_schema, json_result, json_outcome>>

pipe_vars == <<is_configured, configure_calls, gemini_service, services, disk, req>>

call_vars == <<call_pc, call_args, call_result>>

vars == <<ocr_vars, json_vars, pipe_vars, call_vars>>

None == "None"

\* ------------------------------------------------------------- sequences
RECURSIVE SumSeq(_)
SumSeq(s) == IF s = <<>> THEN 0 ELSE Head(s) + SumSeq(Tail(s))

RECURSIVE Concat(_)
Concat(ss) == IF ss = <<>> THEN <<>> ELSE Head(ss) \o Concat(Tail(ss))

Map(s, F(_)) == [i \in 1..Len(s) |-> F(s[i])]

Range(s) == {s[i] : i \in 1..Len(s)}

SetMin(S) == CHOOSE x \in S : \A y \in S : x <= y
SetMax(S) == CHOOSE x \in S : \A y \in S : x >= y

\* All sequences over S of length exactly n, and of length at most n.
SeqsLen(S, n) == [1..n -> S]
SeqsUpTo(S, n) == UNION {SeqsLen(S, k) : k \in 0..n}

\* ------------------------------------------------------------------ text
Whitespace == {" ", "\t", "\n"}

\* str.strip(): drop leading and trailing whitespace.
RECURSIVE LStrip(_)
LStrip(t) == IF t # <<>> /\ Head(t) \in Whitespace THEN LStrip(Tail(t)) ELSE t

RECURSIVE RStrip(_)
RStrip(t) ==
    IF t # <<>> /\ t[Len(t)] \in Whitespace
    THEN RStrip(SubSeq(t, 1, Len(t) - 1))
    ELSE t

Strip(t) == RStrip(LStrip(t))

\* --------------------------------------------- what the collaborators return
\* One rasterized page (PIL image): only its size is read.
Images == {[width |-> 4, height |-> 3]}

\* The quadrilaterals the OCR engine reports, as four (x, y) points; the
\* second one starts at its bottom-right corner.
EngineQuads ==
    { << <<0, 0>>, <<2, 0>>, <<2, 1>>, <<0, 1>> >>,
      << <<3, 1>>, <<3, 0>>, <<1, 0>>, <<1, 1>> >>,
      << <<0, 1>>, <<2, 1>>, <<2, 2>>, <<0, 2>> >> }

EngineTexts == { <<"a">>, <<" ", "b">>, <<" ">> }

\* 0.300 is the threshold itself; 0.304 is above it and prints as 0.30.
EngineConfidences == {300, 304, 900}

\* One (bbox, text, confidence) triple of reader.readtext(detail=1).
EngineResults ==
    [bbox : EngineQuads, text : EngineTexts, confidence : EngineConfidences]

\* ---------------------------------------------------- EasyOCRService
\* easyocr_service.py:99  the retention test of a raw token.
RetainedAtThreshold(text, confidence) ==
    confidence >= ConfThreshold /\ Strip(text) # <<>>

Retained(text, confidence) ==
    confidence > ConfThreshold /\ Strip(text) # <<>>

\* A mutant of the text element: the box spans the first and the third point.
CornerBox(r, page_num) ==
    [text |-> Strip(r.text),
     bbox |-> <<r.bbox[1][1], r.bbox[1][2], r.bbox[3][1], r.bbox[3][2]>>,
     confidence |-> r.confidence,
     page |-> page_num + 1]

\* easyocr_service.py:85-96  the text element of one raw token.
TextElement(r, page_num) ==
    LET x_coords == {r.bbox[i][1] : i \in 1..Len(r.bbox)}
        y_coords == {r.bbox[i][2] : i \in 1..Len(r.bbox)}
    IN  [text |-> Strip(r.text),
         bbox |-> <<SetMin(x_coords), SetMin(y_coords),
                    SetMax(x_coords), SetMax(y_coords)>>,
         confidence |-> r.confidence,
         page |-> page_num + 1]

\* easyocr_service.py:82-100  the loop over one page's ocr_results.
RECURSIVE PageElements(_, _)
PageElements(ocr_results, page_num) ==
    IF ocr_results = <<>> THEN <<>>
    ELSE LET r == Head(ocr_results)
             rest == PageElements(Tail(ocr_results), page_num)
         IN  IF Retained(r.text, r.confidence)
             THEN <<TextElement(r, page_num)>> \o rest
             ELSE rest

\* easyocr_service.py:75-102  page_data of page page_num (0-based).
PageData(image, ocr_results, page_num) ==
    [page_number |-> page_num + 1,
     page_width |-> image.width,
     page_height |-> image.height,
     text_elements |-> PageElements(ocr_results, page_num)]

\* The sort key of format_for_llm: (bbox[1], bbox[0]), compared as tuples.
KeyLess(a, b) ==
    \/ a.bbox[2] < b.bbox[2]
    \/ a.bbox[2] = b.bbox[2] /\ a.bbox[1] < b.bbox[1]

SameKey(a, b) == a.bbox[2] = b.bbox[2] /\ a.bbox[1] = b.bbox[1]

\* Insert e behind every element whose key is not greater: a stable insert.
RECURSIVE InsertStable(_, _)
InsertStable(e, s) ==
    IF s = <<>> THEN <<e>>
    ELSE IF KeyLess(e, Head(s)) THEN <<e>> \o s
         ELSE <<Head(s)>> \o InsertStable(e, Tail(s))

RECURSIVE SortFrom(_, _)
SortFrom(done, todo) ==
    IF todo = <<>> THEN done
    ELSE SortFrom(InsertStable(Head(todo), done), Tail(todo))

\* Mutants of the sort: in place of sorted(), the identity; an insert in
\* front of equal keys; and the key (x0, y0).
UnsortedElements(text_elements) == text_elements

RECURSIVE InsertBeforeEqual(_, _)
InsertBeforeEqual(e, s) ==
    IF s = <<>> THEN <<e>>
    ELSE IF ~KeyLess(Head(s), e) THEN <<e>> \o s
         ELSE <<Head(s)>> \o InsertBeforeEqual(e, Tail(s))

RECURSIVE UnstableFrom(_, _)
UnstableFrom(done, todo) ==
    IF todo = <<>> THEN done
    ELSE UnstableFrom(InsertBeforeEqual(Head(todo), done), Tail(todo))

UnstableSortedElements(text_elements) == UnstableFrom(<<>>, text_elements)

\* easyocr_service.py:145-148  sorted(text_elements, key=(y0, x0)); Python's
\* sorted is stable.
SortedElements(text_elements) == SortFrom(<<>>, text_elements)

\* easyocr_service.py:156-161  the coordinate entry of one sorted element.
CoordEntry(elem) ==
    [text |-> elem.text, page |-> elem.page, bbox |-> elem.bbox,
     confidence |-> elem.confidence]

\* easyocr_service.py:134-142  page_info of one page.
PageInfo(page_data) ==
    [page_number |-> page_data.page_number,
     dimensions |-> [width |-> page_data.page_width,
                     height |-> page_data.page_height],
     text_elements |-> page_data.text_elements]

\* easyocr_service.py:151-152  "[Page n] " followed by the page's texts joined
\* by single spaces.  The marker is one element, <<"[Page", n, "]">> flattened
\* to a record, then a space, then the characters.
RECURSIVE JoinWith(_, _)
JoinWith(sep, parts) ==
    IF parts = <<>> THEN <<>>
    ELSE IF Len(parts) = 1 THEN Head(parts)
         ELSE Head(parts) \o sep \o JoinWith(sep, Tail(parts))

Chars(t) == [i \in 1..Len(t) |-> [kind |-> "char", c |-> t[i], n |-> 0]]

PageMarker(n) == <<[kind |-> "page", c |-> "", n |-> n]>>

PageText(page_data) ==
    LET sorted_elements == SortedElements(page_data.text_elements)
        page_text == JoinWith(Chars(<<" ">>),
                              Map(sorted_elements, LAMBDA e : Chars(e.text)))
    IN  PageMarker(page_data.page_number) \o Chars(<<" ">>) \o page_text

\* easyocr_service.py:111-165  format_for_llm.
TruncatedCoordinates(ocr_data) ==
    LET all == Concat(Map(ocr_data, LAMBDA p :
                   Map(SortedElements(p.text_elements), CoordEntry)))
    IN  SubSeq(all, 1, IF Len(all) > 1 THEN 1 ELSE Len(all))

TextWithCoordinates(ocr_data) ==
    Concat(Map(ocr_data, LAMBDA p :
        Map(SortedElements(p.text_elements), CoordEntry)))

\* A mutant of format_for_llm: a page without text elements contributes
\* nothing to all_text.
FormatSkippingEmptyPages(ocr_data) ==
    [document_info |->
        [total_pages |-> Len(ocr_data),
         total_text_elements |->
            SumSeq(Map(ocr_data, LAMBDA p : Len(p.text_elements)))],
     pages |-> Map(ocr_data, PageInfo),
     all_text |-> JoinWith(Chars(<<"\n", "\n">>),
                           Map(SelectSeq(ocr_data, LAMBDA p : p.text_elements # <<>>),
                               PageText)),
     text_with_coordinates |-> TextWithCoordinates(ocr_data)]

format_for_llm(ocr_data) ==
    [document_info |->
        [total_pages |-> Len(ocr_data),
         total_text_elements |->
            SumSeq(Map(ocr_data, LAMBDA p : Len(p.text_elements)))],
     pages |-> Map(ocr_data, PageInfo),
     all_text |-> JoinWith(Chars(<<"\n", "\n">>), Map(ocr_data, PageText)),
     text_with_coordinates |-> TextWithCoordinates(ocr_data)]

\* ------------------------------------------- HybridGeminiService: the prompt
\* f"{v:.2f}" of a confidence in thousandths, in hundredths: the values the
\* engine reports are never exactly halfway.
Format2f(c) == (c + 5) \div 10

\* f"{v:.0f}" of an integer pixel coordinate.
Format0f(v) == v

\* gemini_service_v3.py:212-218  one line of the coordinate listing.
CoordLine(i, element) ==
    [index |-> i + 1,
     text |-> element.text,
     page |-> element.page,
     box |-> <<Format0f(element.bbox[1]), Format0f(element.bbox[2]),
               Format0f(element.bbox[3]), Format0f(element.bbox[4])>>,
     confidence |-> Format2f(element.confidence)]

\* gemini_service_v3.py:207-220  _format_coordinate_info: coord_lines before
\* they are joined with newlines.
FirstPageCoordinateInfo(ocr_data) ==
    LET twc == SelectSeq(ocr_data.text_with_coordinates, LAMBDA e : e.page = 1)
    IN  [i \in 1..Len(twc) |-> CoordLine(i - 1, twc[i])]

\* A mutant of _format_coordinate_info: the index starts again at 1 on every
\* page.
PerPageCoordinateInfo(ocr_data) ==
    LET twc == ocr_data.text_with_coordinates
        before(i) == Len(SelectSeq(SubSeq(twc, 1, i - 1),
                                   LAMBDA e : e.page = twc[i].page))
    IN  [i \in 1..Len(twc) |-> CoordLine(before(i), twc[i])]

format_coordinate_info(ocr_data) ==
    LET twc == ocr_data.text_with_coordinates
    IN  [i \in 1..Len(twc) |-> CoordLine(i - 1, twc[i])]

\* A mutant of _create_hybrid_prompt: the page count is that of the pages
\* that hold a token.
HybridPromptOfNonEmptyPages(ocr_data) ==
    [total_coordinates |-> Len(ocr_data.text_with_coordinates),
     total_pages |-> Len(SelectSeq(ocr_data.pages,
                                   LAMBDA p : p.text_elements # <<>>)),
     coordinate_info |-> format_coordinate_info(ocr_data)]

\* gemini_service_v3.py:134-171  _create_hybrid_prompt: the two counts the
\* prompt states (total_coordinates, total_pages: lines 142-143, used in
\* 149-170) and the listing that follows them (141, 171).
create_hybrid_prompt(ocr_data) ==
    [total_coordinates |-> Len(ocr_data.text_with_coordinates),
     total_pages |-> ocr_data.document_info.total_pages,
     coordinate_info |-> format_coordinate_info(ocr_data)]

\* No prompt has been built.
NoPrompt == [total_coordinates |-> 0, total_pages |-> 0, coordinate_info |-> <<>>]

\* ------------------------------------------------------------ JSON texts
\* A response text is a sequence of lexical units: each of the characters
\* { } [ ] " : , and the whitespace characters is a unit of its own, every
\* other unit is a run of characters that holds none of these ("null", "a",
\* "29293.0").  Backslash escapes do not occur in the texts of the model.
JsonWs == {" ", "\t", "\n", "\r"}

Structural == {"{", "}", "[", "]", "\"", ":", ","}

DigitUnits == {"1", "2"}

NumberUnits == {"1", "2", "29293.0", "0.9"}

\* A parsed JSON value: t is its type, atom its lexeme (string content or
\* number text), kids its members (k the key, v the value; k is empty for
\* the items of an array).
JObject(members) == [t |-> "object", atom |-> <<>>, kids |-> members]
JArray(items) == [t |-> "array", atom |-> <<>>, kids |-> items]
JString(s) == [t |-> "string", atom |-> s, kids |-> <<>>]
JNumber(run) == [t |-> "number", atom |-> run, kids |-> <<>>]
JNull == [t |-> "null", atom |-> <<>>, kids |-> <<>>]
JBool(run) == [t |-> "boolean", atom |-> run, kids |-> <<>>]

Member(k, v) == [k |-> k, v |-> v]

\* dict[k] = v: a repeated key keeps its place and takes the later value.
RECURSIVE PutMember(_, _, _)
PutMember(members, k, v) ==
    IF members = <<>> THEN <<Member(k, v)>>
    ELSE IF Head(members).k = k THEN <<Member(k, v)>> \o Tail(members)
         ELSE <<Head(members)>> \o PutMember(Tail(members), k, v)

HasKey(val, k) == \E i \in 1..Len(val.kids) : val.kids[i].k = k

Get(val, k) == val.kids[CHOOSE i \in 1..Len(val.kids) : val.kids[i].k = k].v

ParseFail == [ok |-> FALSE, val |-> JNull, pos |-> 0]

Parsed(val, pos) == [ok |-> TRUE, val |-> val, pos |-> pos]

RECURSIVE SkipWs(_, _)
SkipWs(t, i) == IF i <= Len(t) /\ t[i] \in JsonWs THEN SkipWs(t, i + 1) ELSE i

\* The first index from i on that holds unit u, or 0.
RECURSIVE Find(_, _, _)
Find(t, u, i) ==
    IF i > Len(t) THEN 0 ELSE IF t[i] = u THEN i ELSE Find(t, u, i + 1)

\* The end (exclusive) of the run of plain units that starts at i.
RECURSIVE RunEnd(_, _)
RunEnd(t, i) ==
    IF i <= Len(t) /\ t[i] \notin Structural \cup JsonWs
    THEN RunEnd(t, i + 1) ELSE i

\* json.decoder: a string ends at the next quote; a control character inside
\* it is an error.
ParseString(t, i) ==
    LET j == Find(t, "\"", i + 1)
    IN  IF j = 0 THEN ParseFail
        ELSE LET content == SubSeq(t, i + 1, j - 1)
             IN  IF \E n \in 1..Len(content) : content[n] \in {"\t", "\n", "\r"}
                 THEN ParseFail
                 ELSE Parsed(JString(content), j + 1)

\* json.scanner: a number or one of null, true, false.
ParseRun(t, i) ==
    LET j == RunEnd(t, i)
        run == SubSeq(t, i, j - 1)
    IN  IF run = <<>> THEN ParseFail
        ELSE IF \A n \in 1..Len(run) : run[n] \in DigitUnits
             THEN Parsed(JNumber(run), j)
        ELSE IF Len(run) = 1 /\ run[1] \in NumberUnits THEN Parsed(JNumber(run), j)
        ELSE IF run = <<"null">> THEN Parsed(JNull, j)
        ELSE IF run \in {<<"true">>, <<"false">>} THEN Parsed(JBool(run), j)
        ELSE ParseFail

RECURSIVE ParseValue(_, _)
RECURSIVE ParseMembers(_, _, _)
RECURSIVE ParseItems(_, _, _)

\* json.decoder.JSONObject after "{" or ",": a key, ":", a value, then "," or "}".
ParseMembers(t, i, acc) ==
    IF i > Len(t) \/ t[i] # "\"" THEN ParseFail
    ELSE LET key == ParseString(t, i)
         IN  IF ~key.ok THEN ParseFail
             ELSE LET c == SkipWs(t, key.pos)
                  IN  IF c > Len(t) \/ t[c] # ":" THEN ParseFail
                      ELSE LET v == ParseValue(t, SkipWs(t, c + 1))
                           IN  IF ~v.ok THEN ParseFail
                               ELSE LET e == SkipWs(t, v.pos)
                                        acc2 == PutMember(acc, key.val.atom, v.val)
                                    IN  IF e > Len(t) THEN ParseFail
                                        ELSE IF t[e] = "}" THEN Parsed(JObject(acc2), e + 1)
                                        ELSE IF t[e] = ","
                                             THEN ParseMembers(t, SkipWs(t, e + 1), acc2)
                                        ELSE ParseFail

\* json.decoder.JSONArray after "[" or ",": a value, then "," or "]".
ParseItems(t, i, acc) ==
    LET v == ParseValue(t, i)
    IN  IF ~v.ok THEN ParseFail
        ELSE LET e == SkipWs(t, v.pos)
                 acc2 == Append(acc, Member(<<>>, v.val))
             IN  IF e > Len(t) THEN ParseFail
                 ELSE IF t[e] = "]" THEN Parsed(JArray(acc2), e + 1)
                 ELSE IF t[e] = "," THEN ParseItems(t, SkipWs(t, e + 1), acc2)
                 ELSE ParseFail

\* json.scanner.scan_once at index i.
ParseValue(t, i) ==
    IF i > Len(t) THEN ParseFail
    ELSE IF t[i] = "\"" THEN ParseString(t, i)
    ELSE IF t[i] = "{"
         THEN LET j == SkipWs(t, i + 1)
              IN  IF j <= Len(t) /\ t[j] = "}" THEN Parsed(JObject(<<>>), j + 1)
                  ELSE ParseMembers(t, j, <<>>)
    ELSE IF t[i] = "["
         THEN LET j == SkipWs(t, i + 1)
              IN  IF j <= Len(t) /\ t[j] = "]" THEN Parsed(JArray(<<>>), j + 1)
                  ELSE ParseItems(t, j, <<>>)
    ELSE ParseRun(t, i)

\* json.loads: one value between optional whitespace, and nothing after it.
json_loads(t) ==
    LET v == ParseValue(t, SkipWs(t, 1))
    IN  IF v.ok /\ SkipWs(t, v.pos) = Len(t) + 1 THEN v ELSE ParseFail

\* ------------------------- HybridGeminiService._extract_json_from_response
Extracted(val) == [kind |-> "ok", val |-> val, msg |-> ""]

JSONDecodeError(msg) == [kind |-> "JSONDecodeError", val |-> JNull, msg |-> msg]

Loaded(t) ==
    IF json_loads(t).ok THEN Extracted(json_loads(t).val)
    ELSE JSONDecodeError("json.loads")

\* gemini_service_v3.py:238-248  the loop: the index behind the "}" that
\* brings brace_count back to 0 (end_idx), or 0 when the text ends first.
RECURSIVE MatchEnd(_, _, _)
MatchEnd(t, i, brace_count) ==
    IF i > Len(t) THEN 0
    ELSE IF t[i] = "{" THEN MatchEnd(t, i + 1, brace_count + 1)
    ELSE IF t[i] = "}"
         THEN IF brace_count - 1 = 0 THEN i + 1
              ELSE MatchEnd(t, i + 1, brace_count - 1)
    ELSE MatchEnd(t, i + 1, brace_count)

\* A mutant of the extraction: a reply without "{" yields an empty object.
ExtractOrEmptyObject(response_text) ==
    IF json_loads(response_text).ok
    THEN Extracted(json_loads(response_text).val)
    ELSE LET text == Strip(response_text)
             start_idx == Find(text, "{", 1)
         IN  IF start_idx = 0
             THEN Extracted(JObject(<<>>))
             ELSE LET end_idx == MatchEnd(text, start_idx, 0)
                  IN  IF end_idx = 0
                      THEN JSONDecodeError("Unmatched braces in JSON")
                      ELSE Loaded(SubSeq(text, start_idx, end_idx - 1))

\* gemini_service_v3.py:222-255
extract_json_from_response(response_text) ==
    IF json_loads(response_text).ok
    THEN Extracted(json_loads(response_text).val)
    ELSE LET text == Strip(response_text)
             start_idx == Find(text, "{", 1)
         IN  IF start_idx = 0
             THEN JSONDecodeError("No JSON object found in response")
             ELSE LET end_idx == MatchEnd(text, start_idx, 0)
                  IN  IF end_idx = 0
                      THEN JSONDecodeError("Unmatched braces in JSON")
                      ELSE Loaded(SubSeq(text, start_idx, end_idx - 1))

\* ------------------------------------------------------------ JSON Schema
\* A schema is the parsed JSON of its text (a Python dict).  The keywords the
\* repository's schemas use are type, properties, items, required and the
\* annotation description; a boolean is a schema too.
Key(name) == <<name>>

TypeKeyword(types) ==
    IF Len(types) = 1 THEN JString(<<types[1]>>)
    ELSE JArray([i \in 1..Len(types) |-> Member(<<>>, JString(<<types[i]>>))])

\* {"type": types, "properties": {...}, "items": ..., "required": [...]},
\* each keyword only when given.
Schema(types, props, items, required) ==
    JObject(
        (IF types = <<>> THEN <<>> ELSE <<Member(Key("type"), TypeKeyword(types))>>)
        \o (IF props = <<>> THEN <<>>
            ELSE <<Member(Key("properties"), JObject(props))>>)
        \o (IF items = <<>> THEN <<>> ELSE <<Member(Key("items"), items[1])>>)
        \o (IF required = <<>> THEN <<>>
            ELSE <<Member(Key("required"),
                          JArray([i \in 1..Len(required) |->
                                     Member(<<>>, JString(<<required[i]>>))]))>>))

Prop(name, schema) == Member(Key(name), schema)

\* The type names a "type" keyword lists.
TypesOf(keyword) ==
    IF keyword.t = "string" THEN {keyword.atom}
    ELSE {keyword.kids[i].v.atom : i \in 1..Len(keyword.kids)}

\* jsonschema's type checker: a JSON type name against an instance, for the
\* type names object, array, string, number, boolean and null.
IsType(instance, name) == name = <<instance.t>>

\* A mutant of the validation: the keywords type and required of the
\* schema itself, and nothing below it.
ShallowConforms(instance, schema) ==
    IF schema.t = "boolean" THEN schema.atom = <<"true">>
    ELSE
    /\ HasKey(schema, Key("type")) =>
          \E name \in TypesOf(Get(schema, Key("type"))) : IsType(instance, name)
    /\ instance.t = "object" /\ HasKey(schema, Key("required")) =>
          \A i \in 1..Len(Get(schema, Key("required")).kids) :
              HasKey(instance, Get(schema, Key("required")).kids[i].v.atom)

\* jsonschema's iter_errors finds no error: every keyword of the schema holds
\* of the instance.
RECURSIVE Conforms(_, _)
Conforms(instance, schema) ==
    IF schema.t = "boolean" THEN schema.atom = <<"true">>
    ELSE
    /\ HasKey(schema, Key("type")) =>
          \E name \in TypesOf(Get(schema, Key("type"))) : IsType(instance, name)
    /\ instance.t = "object" /\ HasKey(schema, Key("required")) =>
          \A i \in 1..Len(Get(schema, Key("required")).kids) :
              HasKey(instance, Get(schema, Key("required")).kids[i].v.atom)
    /\ instance.t = "object" /\ HasKey(schema, Key("properties")) =>
          \A i \in 1..Len(Get(schema, Key("properties")).kids) :
              LET prop == Get(schema, Key("properties")).kids[i]
              IN  HasKey(instance, prop.k) => Conforms(Get(instance, prop.k), prop.v)
    /\ instance.t = "array" /\ HasKey(schema, Key("items")) =>
          \A i \in 1..Len(instance.kids) :
              Conforms(instance.kids[i].v, Get(schema, Key("items")))

\* jsonschema.validate checks the schema first and raises SchemaError for one
\* that is neither an object nor a boolean.
SchemaOk(schema) == schema.t \in {"object", "boolean"}

\* gemini_service_v3.py:257-264 and gemini_service.py:121-126
\* _validate_response: "ok" when jsonschema.validate returns, else the
\* exception it raises.
AcceptAnything(instance, schema) == "ok"

validate_response(instance, schema) ==
    IF ~SchemaOk(schema) THEN "SchemaError"
    ELSE IF Conforms(instance, schema) THEN "ok"
    ELSE "ValidationError"

\* schemas.py:64-72,80-86  one leaf of the bank_statement schema; a
\* description of "" stands for none.
FieldValueSchema(value_types, description) ==
    Schema(<<"object", "null">>,
           << Prop("value",
                   JObject(<<Member(Key("type"), TypeKeyword(value_types))>>
                           \o (IF description = "" THEN <<>>
                               ELSE <<Member(Key("description"),
                                             JString(<<description>>))>>))),
              Prop("position",
                   Schema(<<"array">>, <<>>, <<Schema(<<"number">>, <<>>, <<>>, <<>>)>>,
                          <<>>)),
              Prop("confidence", Schema(<<"number">>, <<>>, <<>>, <<>>)),
              Prop("review_required", Schema(<<"boolean">>, <<>>, <<>>, <<>>)) >>,
           <<>>, <<>>)

StringField(description) == FieldValueSchema(<<"string", "null">>, description)

NumberField(description) == FieldValueSchema(<<"number", "null">>, description)

\* schemas.py:58-92  DEFAULT_SCHEMAS["bank_statement"].
BankStatementSchema ==
    Schema(<<"object">>,
           << Prop("basic_information",
                   Schema(<<"object", "null">>,
                          << Prop("bank_name", StringField("")),
                             Prop("account_name", StringField("")),
                             Prop("account_number", StringField("")),
                             Prop("ifsc_code", StringField("")),
                             Prop("start_date", StringField("YYYY-MM-DD format")),
                             Prop("end_date", StringField("YYYY-MM-DD format")),
                             Prop("account_address", StringField("")),
                             Prop("opening_balance", NumberField("")),
                             Prop("closing_balance", NumberField("")) >>,
                          <<>>, <<>>)),
              Prop("transactions",
                   Schema(<<"array", "null">>, <<>>,
                          << Schema(<<"object">>,
                                    << Prop("date", StringField("YYYY-MM-DD format")),
                                       Prop("description", StringField("")),
                                       Prop("debit", NumberField(
                                           "Withdrawal amount. Use null if it is a deposit.")),
                                       Prop("credit", NumberField(
                                           "Deposit amount. Use null if it is a withdrawal.")),
                                       Prop("balance", NumberField("")),
                                       Prop("category", StringField(
                                           "Categorize: e.g., 'Salary', 'Transfer', 'Interest', etc.")),
                                       Prop("merchant_name", StringField(
                                           "The merchant or person's name.")) >>,
                                    <<>>, <<>>) >>,
                          <<>>)) >>,
           <<>>,
           <<"basic_information", "transactions">>)

\* schemas.py:57-94  DEFAULT_SCHEMAS: bank_statement is its only key.
DEFAULT_SCHEMAS == [bank_statement |-> BankStatementSchema]

\* The text of a caller's own schema:
\* {"type":"object","properties":{"a":{"type":"number"}},"required":["a"]}
CustomSchemaText ==
    << "{", "\"", "type", "\"", ":", "\"", "object", "\"", ",",
       "\"", "properties", "\"", ":", "{", "\"", "a", "\"", ":",
            "{", "\"", "type", "\"", ":", "\"", "number", "\"", "}", "}", ",",
       "\"", "required", "\"", ":", "[", "\"", "a", "\"", "]", "}" >>

CustomSchema == json_loads(CustomSchemaText).val

\* ----------------------- the outcome of a processing operation or request
HTTPException(status_code, prefix, cause, steps) ==
    [kind |-> "HTTPException", status_code |-> status_code, status |-> "",
     detail |-> [prefix |-> prefix, cause |-> cause],
     structured_data |-> JNull, pages_processed |-> 0, total_text_elements |-> 0,
     approach |-> "", steps |-> steps]

\* A mutant of the returned value: the members of structured_data that are
\* null are left out.
ReturnedWithoutNulls(structured_data, pages_processed, total_text_elements, approach, steps) ==
    [kind |-> "return", status_code |-> 200, status |-> "success",
     detail |-> [prefix |-> "", cause |-> ""],
     structured_data |->
        [structured_data EXCEPT
            !.kids = SelectSeq(@, LAMBDA m : m.v.t # "null")],
     pages_processed |-> pages_processed,
     total_text_elements |-> total_text_elements,
     approach |-> approach, steps |-> steps]

\* A value returned to the caller; status is OCRResponse.status, "success"
\* for a service's result dict.
Returned(structured_data, pages_processed, total_text_elements, approach, steps) ==
    [kind |-> "return", status_code |-> 200, status |-> "success",
     detail |-> [prefix |-> "", cause |-> ""],
     structured_data |-> structured_data, pages_processed |-> pages_processed,
     total_text_elements |-> total_text_elements,
     approach |-> approach, steps |-> steps]

\* main.py:199-206  OCRResponse(status="error", error=str(e), pages_processed=0).
ErrorResponse(cause, steps) ==
    [kind |-> "return", status_code |-> 200, status |-> "error",
     detail |-> [prefix |-> "", cause |-> cause],
     structured_data |-> JNull, pages_processed |-> 0, total_text_elements |-> 0,
     approach |-> "", steps |-> steps]

NoOutcome ==
    [kind |-> "none", status_code |-> 0, status |-> "",
     detail |-> [prefix |-> "", cause |-> ""],
     structured_data |-> JNull, pages_processed |-> 0, total_text_elements |-> 0,
     approach |-> "", steps |-> <<>>]

\* gemini_service_v3.py:102-122  from the extraction's result to the end of
\* the try block and its except clauses.  steps lists the calls made so far.
HybridAfterExtract(result, schema, ocr_data, steps) ==
    IF result.kind = "JSONDecodeError"
    THEN HTTPException(500, "Invalid JSON response from Gemini: ", result.msg,
                       Append(steps, "extract_json"))
    ELSE IF validate_response(result.val, schema) = "ValidationError"
    THEN HTTPException(500, "Schema validation failed: ", "ValidationError.message",
                       steps \o <<"extract_json", "validate">>)
    ELSE IF validate_response(result.val, schema) = "SchemaError"
    THEN HTTPException(500, "Processing error: ", "SchemaError",
                       steps \o <<"extract_json", "validate">>)
    ELSE Returned(result.val,
                  ocr_data.document_info.total_pages,
                  ocr_data.document_info.total_text_elements,
                  "hybrid_pdf_easyocr",
                  steps \o <<"extract_json", "validate">>)

\* A mutant of the resolver: an empty reply goes to the extraction like any
\* other.
ResolveWithoutEmptyCheck(response_text, schema, ocr_data, steps) ==
    HybridAfterExtract(extract_json_from_response(response_text), schema, ocr_data, steps)

\* gemini_service_v3.py:97-125  from the model's reply to the outcome.
HybridResolve(response_text, schema, ocr_data, steps) ==
    IF response_text = <<>>
    THEN HTTPException(500, "Processing error: ",
                       "500: Gemini returned an empty response", steps)
    ELSE HybridAfterExtract(extract_json_from_response(response_text),
                            schema, ocr_data, steps)

\* ------------------------------------------- the process and its requests
Requests == 1..NumRequests

ServiceClasses == {"GeminiService", "HybridGeminiService"}

\* No path: the value of temp_file_path before its assignment.
NoPath == <<>>

\* The name tempfile gives the temp file of request r; names are unique.
TempName(r) == <<"tmp", r>>

NoResponse == [received |-> FALSE, text |-> <<>>]

NoFormatted ==
    [document_info |-> [total_pages |-> 0, total_text_elements |-> 0],
     pages |-> <<>>, all_text |-> <<>>, text_with_coordinates |-> <<>>]

\* A request that has not arrived.
NoRequest ==
    [op |-> "none", pc |-> "idle", service |-> 0, schema |-> "",
     custom_schema |-> <<>>, document_type |-> "", images |-> 0, all_pages_data |-> <<>>,
     ocr_data |-> NoFormatted,
     reader |-> 0, temp_file_path |-> NoPath, response |-> NoResponse, fault |-> "",
     steps |-> <<>>, outcome |-> NoOutcome]

CallIdle ==
    /\ call_pc = "idle"
    /\ call_args = <<>>
    /\ call_result = <<>>

PipeIdle ==
    /\ is_configured = [c \in ServiceClasses |-> FALSE]
    /\ configure_calls = 0
    /\ gemini_service = None
    /\ services = <<>>
    /\ disk = {}
    /\ req = [r \in Requests |-> NoRequest]

\* =================== SpecOcr: process_pdf_for_llm on one document ==========
OcrIdle ==
    /\ ocr_pc = "idle"
    /\ ocr_images = <<>>
    /\ ocr_raw = <<>>
    /\ all_pages_data = <<>>
    /\ formatted_data = NoFormatted
    /\ coord_lines = <<>>
    /\ hybrid_prompt = NoPrompt

JsonIdle ==
    /\ json_pc = "idle"
    /\ json_shape = [prefix |-> <<>>, object |-> <<>>, suffix |-> <<>>]
    /\ reply = <<>>
    /\ json_schema = "custom"
    /\ json_result = JSONDecodeError("")
    /\ json_outcome = NoOutcome

OcrInit ==
    /\ ocr_pc = "start"
    /\ ocr_images = <<>>
    /\ ocr_raw = <<>>
    /\ all_pages_data = <<>>
    /\ formatted_data = NoFormatted
    /\ coord_lines = <<>>
    /\ hybrid_prompt = NoPrompt
    /\ JsonIdle
    /\ PipeIdle
    /\ CallIdle

RawTokenCount == SumSeq(Map(ocr_raw, Len))

\* easyocr_service.py:47-58  convert_from_bytes returns the page images.
OcrRasterize ==
    /\ ocr_pc = "start"
    /\ \E n \in 0..MaxPages : \E imgs \in SeqsLen(Images, n) :
          ocr_images' = imgs
    /\ ocr_pc' = "pages"
    /\ UNCHANGED <<ocr_raw, all_pages_data, formatted_data, coord_lines, hybrid_prompt,
                   json_vars, pipe_vars, call_vars>>

\* easyocr_service.py:60-103  one iteration of the page loop.
OcrReadPage ==
    /\ ocr_pc = "pages"
    /\ Len(all_pages_data) < Len(ocr_images)
    /\ \E ocr_results \in SeqsUpTo(EngineResults, MaxTokens - RawTokenCount) :
          LET page_num == Len(all_pages_data)
          IN  /\ ocr_raw' = Append(ocr_raw, ocr_results)
              /\ all_pages_data' =
                    Append(all_pages_data,
                           PageData(ocr_images[page_num + 1], ocr_results, page_num))
    /\ UNCHANGED <<ocr_pc, ocr_images, formatted_data, coord_lines, hybrid_prompt,
                   json_vars, pipe_vars, call_vars>>

\* easyocr_service.py:181-184  extract_from_pdf returned; format_for_llm.
OcrFormat ==
    /\ ocr_pc = "pages"
    /\ Len(all_pages_data) = Len(ocr_images)
    /\ formatted_data' = format_for_llm(all_pages_data)
    /\ ocr_pc' = "formatted"
    /\ UNCHANGED <<ocr_images, ocr_raw, all_pages_data, coord_lines, hybrid_prompt,
                   json_vars, pipe_vars, call_vars>>

\* gemini_service_v3.py:80,134-171  _create_hybrid_prompt: the coordinate
\* listing and the counts the prompt states before it.
OcrListing ==
    /\ ocr_pc = "formatted"
    /\ coord_lines' = format_coordinate_info(formatted_data)
    /\ hybrid_prompt' = create_hybrid_prompt(formatted_data)
    /\ ocr_pc' = "listed"
    /\ UNCHANGED <<ocr_images, ocr_raw, all_pages_data, formatted_data, json_vars, pipe_vars, call_vars>>

OcrNext == OcrRasterize \/ OcrReadPage \/ OcrFormat \/ OcrListing

SpecOcr == OcrInit /\ [][OcrNext]_vars

\* =========== SpecJson: the response resolver on one reply of the model ======
\* Arbitrary replies: every text of at most MaxTextLen of these units.
JsonAlphabet == {"{", "}", "\"", ":", "1", "x", " "}

FreeTexts == SeqsUpTo(JsonAlphabet, MaxTextLen)

Quoted(content) == <<"\"">> \o content \o <<"\"">>

\* The texts of scalar JSON values; two of the strings hold a brace.
ScalarTexts ==
    { <<"1">>, <<"null">>, Quoted(<<"x">>), Quoted(<<"a", " ", "}", " ", "b">>),
      Quoted(<<"{">>) }

ObjectText1(k, v) == <<"{">> \o Quoted(<<k>>) \o <<":">> \o v \o <<"}">>

ObjectText2(k1, v1, k2, v2) ==
    <<"{">> \o Quoted(<<k1>>) \o <<":">> \o v1 \o <<",", " ">>
            \o Quoted(<<k2>>) \o <<":">> \o v2 \o <<"}">>

\* The texts of JSON objects nested at most d deep, one member a level.
RECURSIVE NestedObjectTexts(_)
NestedObjectTexts(d) ==
    IF d = 0 THEN {<<"{", "}">>}
    ELSE {<<"{", "}">>}
         \cup {ObjectText1("a", v) : v \in ScalarTexts \cup NestedObjectTexts(d - 1)}

\* The texts of the JSON objects a reply embeds: the nested ones, and the
\* objects of two members.
ObjectTexts ==
    LET inner == ScalarTexts \cup NestedObjectTexts(MaxDepth - 1)
    IN  NestedObjectTexts(MaxDepth)
        \cup {ObjectText2("a", v, "b", w) : v \in inner, w \in inner}

\* Prose in front of the object (without braces) and behind it.
ProseBefore == {<<>>, <<"x", " ">>}

ProseAfter == {<<>>, <<" ", "x">>, <<"}">>, <<" ", "{", "x">>}

ReplyShapes == [prefix : ProseBefore, object : ObjectTexts, suffix : ProseAfter]

FreeShape(t) == [prefix |-> t, object |-> <<>>, suffix |-> <<>>]

SchemaNames == {"custom", "bank_statement"}

SchemaNamed(name) ==
    IF name = "bank_statement" THEN DEFAULT_SCHEMAS.bank_statement ELSE CustomSchema

JsonInit ==
    /\ json_pc = "reply"
    /\ json_shape \in ReplyShapes \cup {FreeShape(t) : t \in FreeTexts}
    /\ reply = json_shape.prefix \o json_shape.object \o json_shape.suffix
    /\ json_schema \in SchemaNames
    /\ json_result = JSONDecodeError("")
    /\ json_outcome = NoOutcome
    /\ OcrIdle
    /\ PipeIdle
    /\ CallIdle

\* gemini_service_v3.py:101  _extract_json_from_response(response.text).
JsonExtract ==
    /\ json_pc = "reply"
    /\ json_result' = extract_json_from_response(reply)
    /\ json_pc' = "extracted"
    /\ UNCHANGED <<json_shape, reply, json_schema, json_outcome, ocr_vars, pipe_vars, call_vars>>

\* gemini_service_v3.py:97-125  the operation from the reply to its outcome.
JsonResolve ==
    /\ json_pc = "extracted"
    /\ json_outcome' =
          HybridResolve(reply, SchemaNamed(json_schema), formatted_data, <<>>)
    /\ json_pc' = "resolved"
    /\ UNCHANGED <<json_shape, reply, json_schema, json_result, ocr_vars, pipe_vars, call_vars>>

JsonNext == JsonExtract \/ JsonResolve

SpecJson == JsonInit /\ [][JsonNext]_vars

\* ========= Spec: the requests of one server process, interleaved ==========
\* Each action is one stretch of code between two awaits: asyncio runs it
\* without interruption, and other requests run while a call is awaited.
ApiKeys == {"", "key"}

DocumentTypes == {"bank_statement", "invoice", "receipt", "custom", "auto", "unknown"}

HybridDocumentTypes == {"bank_statement"}

\* What the rasterizer returns for every page, and what the engine reads on a
\* page: nothing, or one token.
PipelineImage == CHOOSE image \in Images : TRUE

PipelineToken ==
    CHOOSE token \in EngineResults : token.text = <<"a">> /\ token.confidence = 900

PipelineReadings == {<<>>, <<PipelineToken>>}

\* The replies of the model: none, prose, {"a":1}, {"a":1} in prose, {"a":"x"}
\* and {"basic_information":null, "transactions":null}.
PipelineReplies ==
    { <<>>,
      <<"x">>,
      ObjectText1("a", <<"1">>),
      <<"x", " ">> \o ObjectText1("a", <<"1">>),
      ObjectText1("a", Quoted(<<"x">>)),
      ObjectText2("basic_information", <<"null">>, "transactions", <<"null">>) }

\* main.py:40-48 with gemini_service.py:23-30  the process once main is
\* imported: GeminiService is constructed only with a key.
Init ==
    /\ \E gemini_api_key \in ApiKeys :
          /\ gemini_service = IF gemini_api_key # "" THEN "GeminiService" ELSE None
          /\ is_configured = [c \in ServiceClasses |->
                                 c = "GeminiService" /\ gemini_api_key # ""]
          /\ configure_calls = IF gemini_api_key # "" THEN 1 ELSE 0
    /\ services = <<>>
    /\ disk = {}
    /\ req = [r \in Requests |-> NoRequest]
    /\ OcrIdle
    /\ JsonIdle
    /\ CallIdle

\* gemini_service_v3.py:28-38  HybridGeminiService.__init__(api_key).
ConstructHybrid(api_key) ==
    /\ Len(services) < MaxServices
    /\ IF ~is_configured["HybridGeminiService"] /\ api_key # ""
       THEN /\ configure_calls' = configure_calls + 1
            /\ is_configured' = [is_configured EXCEPT !["HybridGeminiService"] = TRUE]
       ELSE UNCHANGED <<configure_calls, is_configured>>
    /\ services' = Append(services, [reader |-> None, reader_inits |-> 0])
    /\ UNCHANGED <<gemini_service, disk, req, ocr_vars, json_vars, call_vars>>

\* A mutant of _get_reader: a new reader at every call.
NewReaderEachCall(ocr_service) ==
    [reader |-> "Reader", reader_inits |-> ocr_service.reader_inits + 1]

\* easyocr_service.py:26-31  _get_reader: constructs the reader when there
\* is none; no await in it.  The readers of a service are numbered as they
\* are constructed: the current one is number reader_inits, and a request's
\* reader is the number of the one it was handed (0 before line 58).
get_reader(ocr_service) ==
    IF ocr_service.reader = None
    THEN [reader |-> "Reader", reader_inits |-> ocr_service.reader_inits + 1]
    ELSE ocr_service

\* The request has returned or raised: its locals are gone.
Finished(q, outcome, fault) ==
    [q EXCEPT !.pc = "done", !.outcome = outcome, !.fault = fault,
              !.steps = outcome.steps, !.all_pages_data = <<>>,
              !.ocr_data = NoFormatted, !.temp_file_path = NoPath]

\* gemini_service_v3.py:126-132  the finally block: removes the temp file
\* when temp_file_path was assigned.
HybridFinally(r, q, outcome, fault) ==
    /\ disk' = disk \ {q.temp_file_path}
    /\ req' = [req EXCEPT ![r] =
                 Finished(q,
                          IF q.temp_file_path = NoPath THEN outcome
                          ELSE [outcome EXCEPT !.steps = Append(@, "remove")],
                          fault)]

\* Requests arrive in the order of their numbers.
Arrives(r) ==
    /\ req[r].op = "none"
    /\ IF r = 1 THEN TRUE ELSE req[r - 1].op # "none"

\* A mutant of HybridStart: the operation goes on to the extraction without
\* looking at the configuration flag.
HybridStartUnchecked(r, service, schema, document_type) ==
    /\ Arrives(r)
    /\ service \in 1..Len(services)
    /\ req' = [req EXCEPT ![r] =
                 [NoRequest EXCEPT !.op = "hybrid", !.service = service,
                                   !.schema = schema,
                                   !.document_type = document_type,
                                   !.pc = "rasterizing",
                                   !.steps = <<"convert_from_bytes">>]]
    /\ UNCHANGED <<is_configured, configure_calls, gemini_service, services, disk,
                   ocr_vars, json_vars, call_vars>>

\* gemini_service_v3.py:59-68 and easyocr_service.py:181,46-52
\* process_document_hybrid up to the await of convert_from_bytes.
HybridStart(r, service, schema, document_type) ==
    /\ Arrives(r)
    /\ service \in 1..Len(services)
    /\ LET q == [NoRequest EXCEPT !.op = "hybrid", !.service = service,
                                  !.schema = schema,
                                  !.document_type = document_type]
       IN  IF ~is_configured["HybridGeminiService"]
           THEN req' = [req EXCEPT ![r] =
                          Finished(q, HTTPException(500, "Gemini API key not configured",
                                                    "", <<>>),
                                   "not_configured")]
           ELSE req' = [req EXCEPT ![r] =
                          [q EXCEPT !.pc = "rasterizing",
                                    !.steps = <<"convert_from_bytes">>]]
    /\ UNCHANGED <<is_configured, configure_calls, gemini_service, services, disk,
                   ocr_vars, json_vars, call_vars>>

\* gemini_service_v3.py:70-76 with easyocr_service.py:184  extract_from_pdf
\* has returned: format_for_llm, the temp file, and the await of upload_file.
\* Creating the file or writing it may fail; a failed write leaves the file
\* behind with temp_file_path still None.
HybridAfterOcr(r, q) ==
    LET formatted == [q EXCEPT !.ocr_data = format_for_llm(q.all_pages_data),
                               !.steps = Append(@, "NamedTemporaryFile")]
        failure == HTTPException(500, "Processing error: ", "OSError", formatted.steps)
    IN  \/ /\ disk' = disk \cup {TempName(r)}
           /\ req' = [req EXCEPT ![r] =
                        [formatted EXCEPT !.temp_file_path = TempName(r),
                                          !.pc = "uploading",
                                          !.steps = Append(@, "upload_file")]]
        \/ /\ disk' = disk
           /\ req' = [req EXCEPT ![r] = Finished(formatted, failure, "NamedTemporaryFile")]
        \/ /\ disk' = disk \cup {TempName(r)}
           /\ req' = [req EXCEPT ![r] = Finished(formatted, failure, "write")]

\* easyocr_service.py:52-72  convert_from_bytes returned n images; the
\* reader is fetched and the first page's readtext awaited.
HybridRasterized(r, n) ==
    /\ req[r].op = "hybrid" /\ req[r].pc = "rasterizing"
    /\ LET q == [req[r] EXCEPT !.images = n, !.steps = Append(@, "get_reader"),
                               !.reader = get_reader(services[req[r].service]).reader_inits]
       IN  /\ services' = [services EXCEPT ![q.service] = get_reader(@)]
           /\ IF n > 0
              THEN /\ req' = [req EXCEPT ![r] =
                                [q EXCEPT !.pc = "readtext",
                                          !.steps = Append(@, "readtext")]]
                   /\ disk' = disk
              ELSE HybridAfterOcr(r, q)
    /\ UNCHANGED <<is_configured, configure_calls, gemini_service, ocr_vars, json_vars, call_vars>>

\* easyocr_service.py:67-103  readtext returned ocr_results for one page; the
\* next page's readtext is awaited, or extract_from_pdf returns.
HybridReadtext(r, ocr_results) ==
    /\ req[r].op = "hybrid" /\ req[r].pc = "readtext"
    /\ LET page_num == Len(req[r].all_pages_data)
           q == [req[r] EXCEPT !.all_pages_data =
                    Append(@, PageData(PipelineImage, ocr_results, page_num))]
       IN  IF page_num + 1 < q.images
           THEN /\ req' = [req EXCEPT ![r] = [q EXCEPT !.steps = Append(@, "readtext")]]
                /\ disk' = disk
           ELSE HybridAfterOcr(r, q)
    /\ UNCHANGED <<is_configured, configure_calls, gemini_service, services,
                   ocr_vars, json_vars, call_vars>>

\* gemini_service_v3.py:76-94  upload_file returned; the prompt is built and
\* generate_content awaited.
HybridUploaded(r) ==
    /\ req[r].op = "hybrid" /\ req[r].pc = "uploading"
    /\ req' = [req EXCEPT ![r] =
                 [@ EXCEPT !.pc = "generating",
                           !.steps = @ \o <<"create_hybrid_prompt", "generate_content">>]]
    /\ UNCHANGED <<is_configured, configure_calls, gemini_service, services, disk,
                   ocr_vars, json_vars, call_vars>>

\* gemini_service_v3.py:94-132  generate_content returned a response: the
\* rest of the operation.
HybridGenerated(r, text) ==
    /\ req[r].op = "hybrid" /\ req[r].pc = "generating"
    /\ LET q == [req[r] EXCEPT !.response = [received |-> TRUE, text |-> text]]
       IN  HybridFinally(r, q,
                         HybridResolve(text, SchemaNamed(q.schema), q.ocr_data, q.steps),
                         "")
    /\ UNCHANGED <<is_configured, configure_calls, gemini_service, services,
                   ocr_vars, json_vars, call_vars>>

\* The call a hybrid request awaits at each position.
HybridAwaited(pc) ==
    CASE pc = "rasterizing" -> "convert_from_bytes"
      [] pc = "readtext"    -> "readtext"
      [] pc = "uploading"   -> "upload_file"
      [] pc = "generating"  -> "generate_content"

\* A mutant of the failure path: the call that raised is made again.
HybridCallRetried(r) ==
    /\ req[r].op = "hybrid"
    /\ req[r].pc \in {"rasterizing", "readtext", "uploading", "generating"}
    /\ req' = [req EXCEPT ![r].steps = Append(@, HybridAwaited(req[r].pc))]
    /\ UNCHANGED <<is_configured, configure_calls, gemini_service, services, disk,
                   ocr_vars, json_vars, call_vars>>

\* gemini_service_v3.py:123-132 (and easyocr_service.py:107-109)
\* the awaited call raised: except Exception, then the finally block.
HybridCallRaised(r) ==
    /\ req[r].op = "hybrid"
    /\ req[r].pc \in {"rasterizing", "readtext", "uploading", "generating"}
    /\ HybridFinally(r, req[r],
                     HTTPException(500, "Processing error: ",
                                   HybridAwaited(req[r].pc), req[r].steps),
                     HybridAwaited(req[r].pc))
    /\ UNCHANGED <<is_configured, configure_calls, gemini_service, services,
                   ocr_vars, json_vars, call_vars>>

\* ---- main.process_document on the Gemini route (model_name "gemini...")
\* The custom_schema form field: absent, not JSON, {}, a number, a schema.
CustomSchemaTexts == {<<>>, <<"x">>, <<"{", "}">>, <<"1">>, CustomSchemaText}

\* Python's truth value of a parsed JSON value (None is JNull).
Falsy(val) ==
    \/ val.t = "null"
    \/ val.t \in {"object", "array"} /\ val.kids = <<>>
    \/ val.t = "string" /\ val.atom = <<>>
    \/ val.t = "boolean" /\ val.atom = <<"false">>
    \/ val.t = "number" /\ val.atom = <<"0">>

\* main.py:94-108  the schema a Gemini request runs with; target_schema
\* stays None (JNull) when no branch assigns it.
TargetSchema(document_type, custom_schema) ==
    IF document_type = "custom" /\ custom_schema # <<>>
    THEN IF json_loads(custom_schema).ok
         THEN [kind |-> "ok", schema_used |-> "custom",
               target_schema |-> json_loads(custom_schema).val]
         ELSE [kind |-> "JSONDecodeError", schema_used |-> "raw",
               target_schema |-> JNull]
    ELSE IF document_type \in DOMAIN DEFAULT_SCHEMAS
    THEN [kind |-> "ok", schema_used |-> document_type,
          target_schema |-> DEFAULT_SCHEMAS[document_type]]
    ELSE IF document_type = "auto"
    THEN [kind |-> "ok", schema_used |-> "auto",
          target_schema |-> DEFAULT_SCHEMAS["bank_statement"]]
    ELSE [kind |-> "ok", schema_used |-> "raw", target_schema |-> JNull]

\* The schema argument of a request in progress.
SchemaOf(q) ==
    IF q.op = "main" THEN TargetSchema(q.document_type, q.custom_schema).target_schema
    ELSE SchemaNamed(q.schema)

\* main.py:197-206  what process_document does with an exception of its
\* body: an HTTPException is raised again, any other becomes a response.
ErrorResponseForEveryException(raised) == ErrorResponse(raised.detail.cause, raised.steps)

MainExcept(raised) ==
    IF raised.kind = "HTTPException" THEN raised
    ELSE ErrorResponse(raised.detail.cause, raised.steps)

\* An exception that is not an HTTPException.
OtherException(cause, steps) ==
    [NoOutcome EXCEPT !.kind = "Exception", !.detail = [prefix |-> "", cause |-> cause],
                      !.steps = steps]

\* main.py:115-128  the result of process_document_with_schema becomes the
\* response; OCRResponse.data takes a dict only.
MainResponse(result) ==
    IF result.kind # "return" THEN MainExcept(result)
    ELSE IF result.structured_data.t # "object"
    THEN MainExcept(OtherException("pydantic.ValidationError", result.steps))
    ELSE result

\* main.py:72-78  process_document up to the await of file.read().
MainStart(r, filename_ok) ==
    /\ Arrives(r)
    /\ LET q == [NoRequest EXCEPT !.op = "main"]
       IN  IF ~filename_ok
           THEN req' = [req EXCEPT ![r] =
                          Finished(q, MainExcept(HTTPException(
                                         400, "Only PDF files are supported", "", <<>>)),
                                   "filename")]
           ELSE req' = [req EXCEPT ![r] = [q EXCEPT !.pc = "reading",
                                                    !.steps = <<"read">>]]
    /\ UNCHANGED <<is_configured, configure_calls, gemini_service, services, disk,
                   ocr_vars, json_vars, call_vars>>

\* main.py:77-117 and gemini_service.py:39-46  file.read() returned: the
\* size check, the route, the schema, and process_document_with_schema up to
\* the await that opens the temp file.  The form fields document_type and
\* custom_schema are first read here; custom_schema is kept only where the
\* code goes on to use it.
MainRead(r, size_ok, document_type, custom_schema) ==
    /\ req[r].op = "main" /\ req[r].pc = "reading"
    /\ LET target == TargetSchema(document_type, custom_schema)
           q == [req[r] EXCEPT !.document_type = document_type,
                               !.schema = target.schema_used,
                               !.custom_schema = IF target.schema_used = "custom"
                                                 THEN custom_schema ELSE <<>>]
           Raise(status_code, detail, fault) ==
               Finished(q, MainExcept(HTTPException(status_code, detail, "", q.steps)),
                        fault)
       IN  req' = [req EXCEPT ![r] =
             IF ~size_ok THEN Raise(400, "File too large. Maximum size: ", "size")
             ELSE IF gemini_service = None
             THEN Raise(500, "Gemini API key not configured", "not_configured")
             ELSE IF target.kind = "JSONDecodeError"
             THEN Raise(400, "Invalid custom schema JSON", "custom_schema")
             ELSE IF Falsy(target.target_schema)
             THEN Raise(400, "Schema is required for Gemini processing", "no_schema")
             ELSE IF ~is_configured["GeminiService"]
             THEN Raise(500, "Gemini API key not configured", "not_configured")
             ELSE [q EXCEPT !.pc = "tempfile",
                            !.steps = Append(@, "NamedTemporaryFile")]]
    /\ UNCHANGED <<is_configured, configure_calls, gemini_service, services, disk,
                   ocr_vars, json_vars, call_vars>>

\* main.py:199-206  file.read() raised.
MainReadRaised(r) ==
    /\ req[r].op = "main" /\ req[r].pc = "reading"
    /\ req' = [req EXCEPT ![r] =
                 Finished(@, MainExcept(OtherException("read", @.steps)), "read")]
    /\ UNCHANGED <<is_configured, configure_calls, gemini_service, services, disk,
                   ocr_vars, json_vars, call_vars>>

\* gemini_service.py:89-91  except Exception.
GeminiUnexpected(cause, steps) ==
    HTTPException(500, "An unexpected error occurred: ", cause, steps)

\* gemini_service.py:46-50  the temp file is opened, written and closed, and
\* upload_file awaited.  Opening or writing may fail; a failed write leaves
\* the file behind with temp_file_path still None, and the finally block
\* (92-97) then has nothing to await.
GeminiTempFile(r) ==
    /\ req[r].op = "main" /\ req[r].pc = "tempfile"
    /\ LET q == req[r]
           failure == MainResponse(GeminiUnexpected("OSError", q.steps))
       IN  \/ /\ disk' = disk \cup {TempName(r)}
              /\ req' = [req EXCEPT ![r] =
                           [q EXCEPT !.temp_file_path = TempName(r),
                                     !.pc = "uploading",
                                     !.steps = Append(@, "upload_file")]]
           \/ /\ disk' = disk
              /\ req' = [req EXCEPT ![r] = Finished(q, failure, "NamedTemporaryFile")]
           \/ /\ disk' = disk \cup {TempName(r)}
              /\ req' = [req EXCEPT ![r] = Finished(q, failure, "write")]
    /\ UNCHANGED <<is_configured, configure_calls, gemini_service, services,
                   ocr_vars, json_vars, call_vars>>

\* gemini_service.py:50-66  upload_file returned; the prompt is built and
\* generate_content awaited.
GeminiUploaded(r) ==
    /\ req[r].op = "main" /\ req[r].pc = "uploading"
    /\ req' = [req EXCEPT ![r] =
                 [@ EXCEPT !.pc = "generating",
                           !.steps = @ \o <<"create_prompt", "generate_content">>]]
    /\ UNCHANGED <<is_configured, configure_calls, gemini_service, services, disk,
                   ocr_vars, json_vars, call_vars>>

\* gemini_service.py:69-91  from the model's reply to what the operation
\* returns or raises: json.loads on the whole text, then the validation.
GeminiResolve(response_text, schema, steps) ==
    IF response_text = <<>>
    THEN GeminiUnexpected("500: Gemini returned an empty response", steps)
    ELSE IF ~json_loads(response_text).ok
    THEN HTTPException(500, "Invalid JSON response from Gemini: ", "json.loads",
                       Append(steps, "json.loads"))
    ELSE LET result == json_loads(response_text).val
             validated == steps \o <<"json.loads", "validate">>
         IN  IF validate_response(result, schema) = "ValidationError"
             THEN HTTPException(500, "Gemini response failed schema validation: ",
                                "ValidationError.message", validated)
             ELSE IF validate_response(result, schema) = "SchemaError"
             THEN GeminiUnexpected("SchemaError", validated)
             ELSE Returned(result, 1, 0, "", validated)

\* gemini_service.py:66-97  generate_content returned a response; the
\* finally block awaits os.path.exists.
GeminiGenerated(r, text) ==
    /\ req[r].op = "main" /\ req[r].pc = "generating"
    /\ LET q == req[r]
       IN  req' = [req EXCEPT ![r] =
                     [q EXCEPT !.pc = "cleanup",
                               !.response = [received |-> TRUE, text |-> text],
                               !.outcome = GeminiResolve(text, SchemaOf(q), q.steps)]]
    /\ UNCHANGED <<is_configured, configure_calls, gemini_service, services, disk,
                   ocr_vars, json_vars, call_vars>>

\* gemini_service.py:89-97  upload_file or generate_content raised.
GeminiCallRaised(r) ==
    /\ req[r].op = "main" /\ req[r].pc \in {"uploading", "generating"}
    /\ LET call == IF req[r].pc = "uploading" THEN "upload_file" ELSE "generate_content"
       IN  req' = [req EXCEPT ![r] =
                     [@ EXCEPT !.pc = "cleanup", !.fault = call,
                               !.outcome = GeminiUnexpected(call, req[r].steps)]]
    /\ UNCHANGED <<is_configured, configure_calls, gemini_service, services, disk,
                   ocr_vars, json_vars, call_vars>>

\* gemini_service.py:95-97 and main.py:115-128,197-198  the temp file is
\* removed, the operation returns or raises, and process_document answers.
GeminiCleanup(r) ==
    /\ req[r].op = "main" /\ req[r].pc = "cleanup"
    /\ disk' = disk \ {req[r].temp_file_path}
    /\ req' = [req EXCEPT ![r] =
                 Finished(@, MainResponse([@.outcome EXCEPT !.steps = Append(@, "remove")]),
                          @.fault)]
    /\ UNCHANGED <<is_configured, configure_calls, gemini_service, services,
                   ocr_vars, json_vars, call_vars>>

Next ==
    \/ \E api_key \in ApiKeys : ConstructHybrid(api_key)
    \/ \E r \in Requests, service \in 1..MaxServices, schema \in SchemaNames,
          document_type \in HybridDocumentTypes :
          HybridStart(r, service, schema, document_type)
    \/ \E r \in Requests, n \in 0..MaxPages : HybridRasterized(r, n)
    \/ \E r \in Requests, ocr_results \in PipelineReadings : HybridReadtext(r, ocr_results)
    \/ \E r \in Requests : HybridUploaded(r)
    \/ \E r \in Requests, text \in PipelineReplies : HybridGenerated(r, text)
    \/ \E r \in Requests : HybridCallRaised(r)
    \/ \E r \in Requests, filename_ok \in BOOLEAN : MainStart(r, filename_ok)
    \/ \E r \in Requests, size_ok \in BOOLEAN, document_type \in DocumentTypes,
          custom_schema \in CustomSchemaTexts :
          MainRead(r, size_ok, document_type, custom_schema)
    \/ \E r \in Requests : MainReadRaised(r)
    \/ \E r \in Requests : GeminiTempFile(r)
    \/ \E r \in Requests : GeminiUploaded(r)
    \/ \E r \in Requests, text \in PipelineReplies : GeminiGenerated(r, text)
    \/ \E r \in Requests : GeminiCallRaised(r)
    \/ \E r \in Requests : GeminiCleanup(r)

Spec == Init /\ [][Next]_vars

\* ======= SpecBox: the text element of one token of the engine =============
Points == (0..MaxCoord) \X (0..MaxCoord)

\* The quadrilateral [(1,5),(9,5),(9,20),(1,20)].
ExampleQuad == << <<1, 5>>, <<9, 5>>, <<9, 20>>, <<1, 20>> >>

\* The orders in which the engine may list the corners of a quadrilateral.
Reorderings(quad) ==
    {[i \in 1..4 |-> quad[f[i]]] :
        f \in {g \in [1..4 -> 1..4] : \A i, j \in 1..4 : g[i] = g[j] => i = j}}

\* Four points in any order and orientation (degenerate ones included), and
\* the example in each of its orders.
BoxQuads == [1..4 -> Points] \cup Reorderings(ExampleQuad)

BoxInit ==
    /\ call_pc = "called"
    /\ call_args \in [bbox : BoxQuads, text : {<<"a">>}, confidence : {900}]
    /\ call_result = <<>>
    /\ OcrIdle
    /\ JsonIdle
    /\ PipeIdle

\* easyocr_service.py:82-96  one iteration of the loop over ocr_results, on
\* the first page.
BoxElement ==
    /\ call_pc = "called"
    /\ call_result' = TextElement(call_args, 0)
    /\ call_pc' = "returned"
    /\ UNCHANGED <<call_args, ocr_vars, json_vars, pipe_vars>>

SpecBox == BoxInit /\ [][BoxElement]_vars

\* ==== SpecValidate: one reply in the shape of a bank statement ============
\* The JSON text of a value, without whitespace.
RECURSIVE JsonText(_)
JsonText(val) ==
    LET Items(F(_)) ==
            JoinWith(<<",">>, [i \in 1..Len(val.kids) |-> F(val.kids[i])])
    IN  CASE val.t = "object" ->
                <<"{">> \o Items(LAMBDA m : Quoted(m.k) \o <<":">> \o JsonText(m.v))
                        \o <<"}">>
          [] val.t = "array" ->
                <<"[">> \o Items(LAMBDA m : JsonText(m.v)) \o <<"]">>
          [] val.t = "string" -> Quoted(val.atom)
          [] val.t = "null" -> <<"null">>
          [] OTHER -> val.atom

FieldValueKeys == {Key("value"), Key("position"), Key("confidence"), Key("review_required")}

\* A FieldValue object around value, with its four keys in order.
FieldValue(value) ==
    << Member(Key("value"), value),
       Member(Key("position"),
              JArray(<<Member(<<>>, JNumber(<<"1">>)), Member(<<>>, JNumber(<<"2">>))>>)),
       Member(Key("confidence"), JNumber(<<"0.9">>)),
       Member(Key("review_required"), JBool(<<"true">>)) >>

\* The members of s whose keys are in keep, in order.
SelectMembers(s, keep) == SelectSeq(s, LAMBDA m : m.k \in keep)

\* What a reply may put in a leaf field holding value: null, the bare value,
\* a FieldValue object with any of its four keys, and a FieldValue object
\* whose confidence is a string.
Leaves(value) ==
    {JNull, value}
    \cup {JObject(SelectMembers(FieldValue(value), keep)) : keep \in SUBSET FieldValueKeys}
    \cup {JObject(PutMember(FieldValue(value), Key("confidence"), JString(<<"x">>)))}

\* Two leaf fields of basic_information and two of a transaction, one of
\* them a string and one a number.
LeafFields ==
    [basic_information |-> {"account_name", "opening_balance"},
     transaction |-> {"description", "balance"}]

LeafValue(field) ==
    IF field \in {"opening_balance", "balance"} THEN JNumber(<<"29293.0">>)
    ELSE JString(<<"x">>)

\* Objects with one leaf field of the group.
OneLeafObjects(group) ==
    UNION {{JObject(<<Member(Key(field), leaf)>>) : leaf \in Leaves(LeafValue(field))} :
           field \in LeafFields[group]}

\* The instances: basic_information null or with one leaf field,
\* transactions null or a list of transactions with one leaf field each.
BankInstances ==
    {JObject(<<Member(Key("basic_information"), basic),
               Member(Key("transactions"), transactions)>>) :
        basic \in {JNull} \cup OneLeafObjects("basic_information"),
        transactions \in
            {JNull} \cup {JArray([i \in 1..Len(items) |-> Member(<<>>, items[i])]) :
                             items \in SeqsUpTo(OneLeafObjects("transaction"),
                                                MaxTransactions)}}

ValidateInit ==
    /\ call_pc = "called"
    /\ \E instance \in BankInstances :
          call_args = [instance |-> instance, text |-> JsonText(instance)]
    /\ call_result = <<>>
    /\ OcrIdle
    /\ JsonIdle
    /\ PipeIdle

\* gemini_service_v3.py:97-125  the operation from the reply to its outcome,
\* with the default bank_statement schema.
ValidateResolve ==
    /\ call_pc = "called"
    /\ call_result' = HybridResolve(call_args.text, DEFAULT_SCHEMAS["bank_statement"],
                                    NoFormatted, <<>>)
    /\ call_pc' = "returned"
    /\ UNCHANGED <<call_args, ocr_vars, json_vars, pipe_vars>>

SpecValidate == ValidateInit /\ [][ValidateResolve]_vars

\* ====== SpecPrompt: the instruction block of one document_type ============
\* The classes that build a prompt from a document_type.
PromptClasses == ServiceClasses \cup {"MistralLLMService"}

\* The instruction block a class keeps under a name.
InstructionBlock(service, name) == [service |-> service, block |-> name]

\* gemini_service_v3.py:269-274, gemini_service.py:131-136  the dict prompts.
prompts(service) ==
    [name \in {"bank_statement", "invoice", "receipt", "default"} |->
        InstructionBlock(service, name)]

\* A mutant of dict.get: the subscript, which has no default.
dict_subscript(d, key, default) ==
    IF key \in DOMAIN d THEN d[key] ELSE InstructionBlock("KeyError", key)

\* gemini_service_v3.py:275, gemini_service.py:137  dict.get(key, default).
dict_get(d, key, default) ==
    IF key \in DOMAIN d THEN d[key] ELSE default

\* gemini_service_v3.py:266-276  HybridGeminiService._get_system_prompt.
Hybrid_get_system_prompt(document_type) ==
    LET d == prompts("HybridGeminiService")
    IN  [header |-> "HYBRID PDF + EASYOCR ANALYSIS:",
         instruction |-> dict_get(d, document_type, d["default"])]

\* gemini_service.py:128-141  GeminiService._get_system_prompt.
Gemini_get_system_prompt(document_type) ==
    LET d == prompts("GeminiService")
    IN  [header |-> "You are an expert document analysis AI.",
         instruction |-> dict_get(d, document_type, d["default"])]

\* llm_service.py:101-132  MistralLLMService._get_system_prompt: a chain of
\* comparisons with a final else.
Mistral_get_system_prompt(document_type) ==
    [header |-> "You are an expert at extracting structured information from documents. ",
     instruction |->
        IF document_type = "bank_statement"
        THEN InstructionBlock("MistralLLMService", "bank_statement")
        ELSE IF document_type = "invoice"
        THEN InstructionBlock("MistralLLMService", "invoice")
        ELSE IF document_type = "receipt"
        THEN InstructionBlock("MistralLLMService", "receipt")
        ELSE InstructionBlock("MistralLLMService", "default")]

\* The document_type strings of a call: the names of the blocks, the other
\* values the API accepts, the empty string, and names that differ from a
\* block's name by case, by a space or by a letter.
PromptDocumentTypes ==
    {"bank_statement", "invoice", "receipt", "default", "auto", "custom", "",
     "unknown", "Bank_Statement", "INVOICE", "Receipt", "bank statement",
     "invoices", "receipt ", " invoice", "bank_statement,invoice", "None",
     "statement"}

PromptInit ==
    /\ call_pc = "called"
    /\ call_args \in [service : PromptClasses, document_type : PromptDocumentTypes]
    /\ call_result = <<>>
    /\ OcrIdle
    /\ JsonIdle
    /\ PipeIdle

\* gemini_service_v3.py:137  the call in _create_hybrid_prompt.
PromptHybrid ==
    /\ call_pc = "called" /\ call_args.service = "HybridGeminiService"
    /\ call_result' = Hybrid_get_system_prompt(call_args.document_type)
    /\ call_pc' = "returned"
    /\ UNCHANGED <<call_args, ocr_vars, json_vars, pipe_vars>>

\* gemini_service.py:102  the call in _create_prompt.
PromptGemini ==
    /\ call_pc = "called" /\ call_args.service = "GeminiService"
    /\ call_result' = Gemini_get_system_prompt(call_args.document_type)
    /\ call_pc' = "returned"
    /\ UNCHANGED <<call_args, ocr_vars, json_vars, pipe_vars>>

\* llm_service.py:37  the call in process_document.
PromptMistral ==
    /\ call_pc = "called" /\ call_args.service = "MistralLLMService"
    /\ call_result' = Mistral_get_system_prompt(call_args.document_type)
    /\ call_pc' = "returned"
    /\ UNCHANGED <<call_args, ocr_vars, json_vars, pipe_vars>>

PromptNext == PromptHybrid \/ PromptGemini \/ PromptMistral

SpecPrompt == PromptInit /\ [][PromptNext]_vars

\* ======================= claims on SpecOcr ================================
OcrFormatted == ocr_pc \in {"formatted", "listed"}

\* All text elements extract_from_pdf retained, page after page.
RetainedElements == Concat(Map(all_pages_data, LAMBDA p : p.text_elements))

AllRawTokens == Concat(ocr_raw)

Count(s, x) == Cardinality({i \in 1..Len(s) : s[i] = x})

\* The permutations of 1..n.
Perms(n) == {f \in [1..n -> 1..n] : \A i, j \in 1..n : f[i] = f[j] => i = j}

\* C4: after extract_from_pdf and format_for_llm, no entry of
\* text_with_coordinates and no element of a page's token list has a
\* confidence of 0.3 or less, or a text that is empty once trimmed.
C4_TokenFiltering ==
    OcrFormatted =>
        /\ \A i \in 1..Len(formatted_data.text_with_coordinates) :
              LET e == formatted_data.text_with_coordinates[i]
              IN  e.confidence > 300 /\ Strip(e.text) # <<>>
        /\ \A p \in 1..Len(formatted_data.pages) :
              \A i \in 1..Len(formatted_data.pages[p].text_elements) :
                 LET e == formatted_data.pages[p].text_elements[i]
                 IN  e.confidence > 300 /\ Strip(e.text) # <<>>

\* C4 witness: the engine reported a readable token at exactly 0.3 next to a
\* token that was kept, and the document was formatted.
C4_Witness ==
    /\ OcrFormatted
    /\ \E i \in 1..Len(AllRawTokens) :
          AllRawTokens[i].confidence = 300 /\ Strip(AllRawTokens[i].text) # <<>>
    /\ Len(formatted_data.text_with_coordinates) = 1

\* C5: the coordinate listing of the prompt holds exactly one line for every
\* retained token of every page: as many lines as retained tokens, and every
\* rendered token as often as it was retained.
C5_LineBody(line) ==
    [text |-> line.text, page |-> line.page, box |-> line.box,
     confidence |-> line.confidence]

C5_Rendered(e) ==
    [text |-> e.text, page |-> e.page, box |-> e.bbox,
     confidence |-> (e.confidence + 5) \div 10]

C5_CompleteListing ==
    ocr_pc = "listed" =>
        LET lines == Map(coord_lines, C5_LineBody)
            tokens == Map(RetainedElements, C5_Rendered)
        IN  /\ Len(lines) = Len(tokens)
            /\ \A x \in Range(lines) \cup Range(tokens) :
                  Count(lines, x) = Count(tokens, x)

\* C5 witness: two pages, each with a retained token, were listed.
C5_Witness ==
    /\ ocr_pc = "listed"
    /\ Len(all_pages_data) = 2
    /\ \A p \in 1..2 : Len(all_pages_data[p].text_elements) = 1

\* C9: within each page the coordinate reference is in ascending y0, then
\* ascending x0, and the tokens of one (y0, x0) are in extraction order.
C9_PageEntries(p) ==
    SelectSeq(formatted_data.text_with_coordinates, LAMBDA e : e.page = p)

C9_KeyOf(e) == <<e.bbox[2], e.bbox[1]>>

C9_StableReadingOrder ==
    OcrFormatted =>
        \A p \in 1..Len(all_pages_data) :
            LET out == C9_PageEntries(p)
                inp == Map(all_pages_data[p].text_elements, CoordEntry)
            IN  /\ \A i, j \in 1..Len(out) :
                      i < j =>
                         \/ out[i].bbox[2] < out[j].bbox[2]
                         \/ /\ out[i].bbox[2] = out[j].bbox[2]
                            /\ out[i].bbox[1] <= out[j].bbox[1]
                /\ \A k \in {C9_KeyOf(inp[i]) : i \in 1..Len(inp)} :
                      SelectSeq(out, LAMBDA e : C9_KeyOf(e) = k)
                         = SelectSeq(inp, LAMBDA e : C9_KeyOf(e) = k)

\* C9 witness: a page with two different retained tokens of the same (y0, x0)
\* was formatted.
C9_Witness ==
    /\ OcrFormatted
    /\ \E p \in 1..Len(all_pages_data) :
          LET els == all_pages_data[p].text_elements
          IN  /\ Len(els) = 2
              /\ C9_KeyOf(els[1]) = C9_KeyOf(els[2])
              /\ els[1] # els[2]

\* The document with page p's token list reordered by permutation f.
C10_Reordered(p, f) ==
    [all_pages_data EXCEPT ![p].text_elements =
        [i \in 1..Len(all_pages_data[p].text_elements) |->
            all_pages_data[p].text_elements[f[i]]]]

C10_DistinctKeys(els) ==
    \A i, j \in 1..Len(els) : C9_KeyOf(els[i]) = C9_KeyOf(els[j]) => i = j

\* C10 as stated: whatever the order in which a page's tokens are supplied,
\* format_for_llm yields the same coordinate reference.
C10_OrderFromSetAlone ==
    OcrFormatted =>
        \A p \in 1..Len(all_pages_data) :
            \A f \in Perms(Len(all_pages_data[p].text_elements)) :
                format_for_llm(C10_Reordered(p, f)).text_with_coordinates
                    = formatted_data.text_with_coordinates

\* C10 as amended: the same, for a page on which no two tokens share one
\* (y0, x0).
C10_OrderFromSetDistinctKeys ==
    OcrFormatted =>
        \A p \in 1..Len(all_pages_data) :
            C10_DistinctKeys(all_pages_data[p].text_elements) =>
                \A f \in Perms(Len(all_pages_data[p].text_elements)) :
                    format_for_llm(C10_Reordered(p, f)).text_with_coordinates
                        = formatted_data.text_with_coordinates

\* C10 witness: a page whose two retained tokens were supplied lower token
\* first was formatted.
C10_Witness ==
    /\ OcrFormatted
    /\ \E p \in 1..Len(all_pages_data) :
          LET els == all_pages_data[p].text_elements
          IN  /\ Len(els) = 2
              /\ els[1].bbox[2] > els[2].bbox[2]

\* C20: the token count the prompt states equals the number of lines of the
\* coordinate listing that follows and document_info.total_text_elements,
\* and the page count it states equals the number of rasterized pages, pages
\* whose tokens were all filtered out included.
C20_StatedCounts ==
    ocr_pc = "listed" =>
        /\ hybrid_prompt.total_coordinates = Len(hybrid_prompt.coordinate_info)
        /\ hybrid_prompt.total_coordinates =
              formatted_data.document_info.total_text_elements
        /\ hybrid_prompt.total_pages = Len(ocr_images)
        /\ \A i \in 1..Len(hybrid_prompt.coordinate_info) :
              hybrid_prompt.coordinate_info[i].index = i

\* Two pages were rasterized; every token of one was filtered out, the other
\* kept a token; the prompt states 1 token across 2 pages.
C20_Witness ==
    /\ ocr_pc = "listed"
    /\ Len(ocr_images) = 2
    /\ \E p \in 1..2 : ocr_raw[p] # <<>> /\ all_pages_data[p].text_elements = <<>>
    /\ hybrid_prompt.total_coordinates = 1
    /\ hybrid_prompt.total_pages = 2

\* The positions of the page markers in all_text, in ascending order.
C21_MarkerPositions ==
    LET t == formatted_data.all_text
        at == {i \in 1..Len(t) : t[i].kind = "page"}
        Nth(k) == CHOOSE i \in at : Cardinality({j \in at : j < i}) = k - 1
    IN  [k \in 1..Cardinality(at) |-> Nth(k)]

\* The characters of texts with one space between consecutive texts.
RECURSIVE C21_Spaced(_)
C21_Spaced(texts) ==
    IF texts = <<>> THEN <<>>
    ELSE IF Len(texts) = 1 THEN Head(texts)
    ELSE Head(texts) \o <<" ">> \o C21_Spaced(Tail(texts))

\* C21: all_text holds one page marker per page, numbered in page order;
\* each marker is followed by a space and the page's token texts in reading
\* order with single spaces between them; between the block of one page and
\* the marker of the next stand two newlines (one blank line); a page that
\* retained no token contributes its marker all the same.
C21_Transcript ==
    OcrFormatted =>
        LET t == formatted_data.all_text
            at == C21_MarkerPositions
            n == Len(all_pages_data)
            BlockEnd(k) == IF k = n THEN Len(t) ELSE at[k + 1] - 1
            Body(k) == [i \in 1..(BlockEnd(k) - at[k]) |-> t[at[k] + i].c]
            Texts(k) == Map(C9_PageEntries(k), LAMBDA e : e.text)
        IN  /\ Len(at) = n
            /\ n = Len(ocr_images)
            /\ n = 0 => t = <<>>
            /\ n > 0 => at[1] = 1
            /\ \A k \in 1..n :
                  /\ t[at[k]].n = k
                  /\ \A i \in (at[k] + 1)..BlockEnd(k) : t[i].kind = "char"
                  /\ Body(k) = <<" ">> \o C21_Spaced(Texts(k))
                                \o (IF k = n THEN <<>> ELSE <<"\n", "\n">>)

\* Two pages were formatted: the first retained no token, the second two
\* tokens that the engine reported lower token first.
C21_Witness ==
    /\ OcrFormatted
    /\ Len(all_pages_data) = 2
    /\ all_pages_data[1].text_elements = <<>>
    /\ Len(all_pages_data[2].text_elements) = 2
    /\ all_pages_data[2].text_elements[1].bbox[2]
          > all_pages_data[2].text_elements[2].bbox[2]
    /\ all_pages_data[2].text_elements[1].text
          # all_pages_data[2].text_elements[2].text

\* C25: the formatted data hold one page layout for each rasterized page,
\* numbered 1..N in order, and the tokens of each layout are in the order of
\* the sort key (y0, x0), which is the order of the page's tokens in the
\* coordinate reference.
C25_PageLayouts ==
    OcrFormatted =>
        /\ Len(formatted_data.pages) = Len(ocr_images)
        /\ \A p \in 1..Len(formatted_data.pages) :
              LET els == formatted_data.pages[p].text_elements
              IN  /\ formatted_data.pages[p].page_number = p
                  /\ \A i, j \in 1..Len(els) :
                        i < j => ~KeyLess(els[j], els[i])
                  /\ Map(els, CoordEntry) = C9_PageEntries(p)

\* The tokens of page p the engine reported that extract_from_pdf retains.
C26_RetainedOf(p) ==
    SelectSeq(ocr_raw[p], LAMBDA r : Retained(r.text, r.confidence))

\* C26: the lines of the coordinate listing carry the indices 1, 2, ..., N
\* in order, without gap or repeat across pages; their page numbers never
\* decrease; and the lines that name page p are as many as the tokens
\* retained from page p and render tokens of that page.
C26_GlobalIndex ==
    ocr_pc = "listed" =>
        /\ \A i \in 1..Len(coord_lines) : coord_lines[i].index = i
        /\ \A i, j \in 1..Len(coord_lines) :
              i < j => coord_lines[i].page <= coord_lines[j].page
        /\ \A i \in 1..Len(coord_lines) : coord_lines[i].page \in 1..Len(ocr_images)
        /\ \A p \in 1..Len(ocr_images) :
              LET lines == SelectSeq(coord_lines, LAMBDA l : l.page = p)
              IN  /\ Len(lines) = Len(C26_RetainedOf(p))
                  /\ \A i \in 1..Len(lines) :
                        \E k \in 1..Len(C26_RetainedOf(p)) :
                           /\ lines[i].text = Strip(C26_RetainedOf(p)[k].text)
                           /\ lines[i].confidence
                                 = Format2f(C26_RetainedOf(p)[k].confidence)

\* Two pages with one retained token each were listed: line 1 names page 1
\* and line 2, with index 2, page 2.
C26_Witness ==
    /\ ocr_pc = "listed"
    /\ Len(coord_lines) = 2
    /\ coord_lines[1].page = 1 /\ coord_lines[1].index = 1
    /\ coord_lines[2].page = 2 /\ coord_lines[2].index = 2

\* ======================= claims on SpecJson ===============================
\* C7: a reply that is not valid JSON as a whole and is prose without braces,
\* then one valid JSON object, then prose, yields that whole object.
C7_OutermostObject ==
    (/\ json_pc \in {"extracted", "resolved"}
     /\ json_shape.object # <<>>
     /\ ~json_loads(reply).ok)
    => json_result = Extracted(json_loads(json_shape.object).val)

\* The number of "{" less the number of "}" among units a..b of text t.
C8_Depth(t, a, b) ==
    Cardinality({i \in a..b : t[i] = "{"}) - Cardinality({i \in a..b : t[i] = "}"})

C8_NoOpenBrace(t) == \A i \in 1..Len(t) : t[i] # "{"

C8_NeverBalanced(t) ==
    \E a \in 1..Len(t) :
        /\ t[a] = "{"
        /\ \A i \in 1..(a - 1) : t[i] # "{"
        /\ \A b \in a..Len(t) : C8_Depth(t, a, b) # 0

\* C8: a reply that is not valid JSON and has no "{", or whose braces from
\* the first "{" on never return to depth zero, makes the extraction raise
\* JSONDecodeError; the operation raises, returns no object and never calls
\* the schema validation, and whenever the reply is not empty its failure is
\* the invalid-JSON one.
C8_NoJsonFound ==
    (/\ json_pc = "resolved"
     /\ ~json_loads(reply).ok
     /\ C8_NoOpenBrace(reply) \/ C8_NeverBalanced(reply))
    => /\ json_result.kind = "JSONDecodeError"
       /\ json_outcome.kind = "HTTPException"
       /\ \A i \in 1..Len(json_outcome.steps) : json_outcome.steps[i] # "validate"
       /\ reply # <<>> =>
             json_outcome.detail.prefix = "Invalid JSON response from Gemini: "

\* C8 witness: a resolved reply of prose and braces left open.
C8_Witness ==
    /\ json_pc = "resolved"
    /\ reply = <<"x", "{", "{", "}">>
    /\ json_outcome.kind = "HTTPException"

\* The string literals of the replies that hold an unbalanced brace.
C22_BraceStrings == {Quoted(<<"a", " ", "}", " ", "b">>), Quoted(<<"{">>)}

C22_HoldsBraceString(object) ==
    \E s \in C22_BraceStrings : \E i \in 1..Len(object) :
        /\ i + Len(s) - 1 <= Len(object)
        /\ SubSeq(object, i, i + Len(s) - 1) = s

\* C22: for a reply of prose around one JSON object that has a string value
\* with an unbalanced brace in it, the extraction returns the complete
\* object: braces inside string literals do not change the scanner's depth.
C22_BracesInStrings ==
    (/\ json_pc \in {"extracted", "resolved"}
     /\ json_shape.prefix # <<>>
     /\ C22_HoldsBraceString(json_shape.object))
    => /\ json_result.kind # "JSONDecodeError"
       /\ json_result = Extracted(json_loads(json_shape.object).val)

\* ========================= claims on Spec ==================================
Done(r) == req[r].pc = "done"

\* C1: when the processing operation of a request has returned or raised,
\* whichever step failed or succeeded, the temp file created for that
\* request no longer exists on disk.
C1_TempFileRemoved == \A r \in Requests : Done(r) => TempName(r) \notin disk

\* What the reply of the model does to a request that received one: the
\* extraction (json.loads on the Gemini route) and the validation fail or not.
ReplyParsed(q) ==
    IF q.op = "hybrid" THEN extract_json_from_response(q.response.text)
    ELSE Loaded(q.response.text)

ReplyFails(q) ==
    \/ q.response.text = <<>>
    \/ ReplyParsed(q).kind # "ok"
    \/ ~SchemaOk(SchemaOf(q))
    \/ ~Conforms(ReplyParsed(q).val, SchemaOf(q))
    \/ q.op = "main" /\ ReplyParsed(q).val.t # "object"

\* A step of request r failed: a collaborator raised, a check of the inputs
\* or of the configuration refused the request, or the reply was unusable.
Failed(r) == req[r].fault # "" \/ (req[r].response.received /\ ReplyFails(req[r]))

\* The failures process_document itself answers, before it calls the service.
MainFaults == {"filename", "size", "custom_schema", "no_schema", "read"}

IsErrorResult(o) ==
    o.kind = "return" /\ o.status = "error" /\ o.pages_processed = 0 /\ o.detail.cause # ""

\* C2 as stated: every failure of a processing operation reaches the caller
\* as an error result with an error status, a message and
\* pages_processed = 0, never as an exception.
C2_UniformErrorResult ==
    \A r \in Requests :
        Done(r) /\ Failed(r) /\ req[r].fault \notin MainFaults =>
            IsErrorResult(req[r].outcome)

\* C2, amended: a failure inside a processing operation is raised to the
\* caller as an HTTPException with status 500 and a message, through
\* process_document unchanged; process_document raises HTTPException 400 or
\* 500 for the requests it refuses itself, and only an exception that is not
\* an HTTPException (a failing file read) becomes an error result with
\* status "error", a message and pages_processed = 0.  A failed request
\* never yields a success, and a request without a failure yields one.
C2_FailuresRaised ==
    \A r \in Requests : Done(r) =>
        LET o == req[r].outcome
        IN  /\ Failed(r) /\ req[r].fault \notin MainFaults =>
                  /\ o.kind = "HTTPException"
                  /\ o.status_code = 500
                  /\ o.detail.prefix # ""
            /\ req[r].fault \in MainFaults \ {"read"} =>
                  /\ o.kind = "HTTPException"
                  /\ o.status_code = 400
                  /\ o.detail.prefix # ""
            /\ req[r].fault = "read" <=> IsErrorResult(o)
            /\ ~Failed(r) <=> o.kind = "return" /\ o.status = "success"

\* One request on the Gemini route failed in the service and was answered
\* with an HTTPException, another failed reading the file and was answered
\* with an error result.
C2_Witness ==
    \E r1, r2 \in Requests :
        /\ Done(r1) /\ req[r1].op = "main" /\ req[r1].response.text = <<"x">>
        /\ req[r1].outcome.kind = "HTTPException"
        /\ Done(r2) /\ req[r2].fault = "read" /\ IsErrorResult(req[r2].outcome)

\* C3: of the requests that share one OCR service, at most one has a
\* reader.readtext call in progress at any time.
C3_OneReadtextAtATime ==
    \A service \in 1..Len(services) :
        Cardinality({r \in Requests : /\ req[r].op = "hybrid"
                                      /\ req[r].pc = "readtext"
                                      /\ req[r].service = service}) <= 1

\* C6: the hybrid operation returns a success only for a reply whose parsed
\* object conforms to the supplied schema, after validating it; a reply that
\* parses but does not conform raises the schema-validation failure, a reply
\* that does not parse raises the JSON failure, and the two differ.
C6_SuccessOnlyIfValid ==
    \A r \in Requests : Done(r) /\ req[r].op = "hybrid" =>
        LET q == req[r]
            o == q.outcome
            parsed == extract_json_from_response(q.response.text)
            answered == q.response.received /\ q.response.text # <<>>
        IN  /\ o.kind = "return" =>
                  /\ answered
                  /\ parsed.kind = "ok"
                  /\ Conforms(parsed.val, SchemaNamed(q.schema))
                  /\ \E i \in 1..Len(o.steps) : o.steps[i] = "validate"
            /\ answered /\ parsed.kind = "ok"
                  /\ ~Conforms(parsed.val, SchemaNamed(q.schema)) =>
                  /\ o.kind = "HTTPException"
                  /\ o.detail.prefix = "Schema validation failed: "
            /\ answered /\ parsed.kind # "ok" =>
                  /\ o.kind = "HTTPException"
                  /\ o.detail.prefix = "Invalid JSON response from Gemini: "

\* One hybrid request succeeded with a conforming reply and another, whose
\* reply parsed but did not conform, raised the schema-validation failure.
C6_Witness ==
    \E r1, r2 \in Requests :
        /\ Done(r1) /\ req[r1].op = "hybrid" /\ req[r1].outcome.kind = "return"
        /\ Done(r2) /\ req[r2].op = "hybrid"
        /\ req[r2].response.text = ObjectText1("a", Quoted(<<"x">>))
        /\ req[r2].outcome.detail.prefix = "Schema validation failed: "

\* The steps of a hybrid request on a document of n pages, in the order of
\* the code, up to the return.
HybridSteps(n) ==
    <<"convert_from_bytes", "get_reader">> \o [i \in 1..n |-> "readtext"]
    \o <<"NamedTemporaryFile", "upload_file", "create_hybrid_prompt",
         "generate_content", "extract_json", "validate">>

IsPrefix(s, t) == Len(s) <= Len(t) /\ s = SubSeq(t, 1, Len(s))

\* The steps of a request before its cleanup.
BeforeCleanup(steps) ==
    IF steps # <<>> /\ steps[Len(steps)] = "remove"
    THEN SubSeq(steps, 1, Len(steps) - 1) ELSE steps

\* The step at which a finished hybrid request failed, "" when it succeeded.
FailedStep(q) ==
    IF q.fault = "not_configured" THEN "none"
    ELSE IF q.fault \in {"NamedTemporaryFile", "write"} THEN "NamedTemporaryFile"
    ELSE IF q.fault # "" THEN q.fault
    ELSE IF q.response.text = <<>> THEN "generate_content"
    ELSE IF extract_json_from_response(q.response.text).kind # "ok" THEN "extract_json"
    ELSE IF ~Conforms(extract_json_from_response(q.response.text).val,
                      SchemaNamed(q.schema))
    THEN "validate"
    ELSE ""

\* C14: the steps of a hybrid request run in the order OCR extraction of
\* all pages, upload, model call, JSON extraction, schema validation, each
\* at most once (readtext once a page); the model is called only after
\* extraction and upload returned; the step that fails is the last one
\* before the cleanup, and the cleanup runs once at the end.
C14_StepsInOrder ==
    \A r \in Requests : req[r].op = "hybrid" =>
        LET q == req[r]
            steps == BeforeCleanup(q.steps)
        IN  /\ IsPrefix(steps, HybridSteps(q.images))
            /\ \A i \in 1..Len(q.steps) :
                  q.steps[i] = "remove" => i = Len(q.steps) /\ Done(r)
            /\ Done(r) =>
                  CASE FailedStep(q) = "" ->
                          /\ q.outcome.kind = "return"
                          /\ steps = HybridSteps(q.images)
                    [] FailedStep(q) = "none" ->
                          /\ q.outcome.kind = "HTTPException"
                          /\ q.steps = <<>>
                    [] OTHER ->
                          /\ q.outcome.kind = "HTTPException"
                          /\ steps[Len(steps)] = FailedStep(q)
                          /\ FailedStep(q) = "readtext" \/
                             \A i \in 1..Len(steps) - 1 : steps[i] # FailedStep(q)

\* A request on two pages ran every step and succeeded, and another failed
\* at the upload and ran nothing after it but the cleanup.
C14_Witness ==
    \E r1, r2 \in Requests :
        /\ Done(r1) /\ req[r1].op = "hybrid" /\ req[r1].outcome.kind = "return"
        /\ req[r1].steps = Append(HybridSteps(2), "remove")
        /\ Done(r2) /\ req[r2].op = "hybrid" /\ req[r2].fault = "upload_file"
        /\ req[r2].steps[Len(req[r2].steps)] = "remove"
        /\ req[r2].steps[Len(req[r2].steps) - 1] = "upload_file"

\* The requests that have fetched the reader of a service.
FetchedReader(service) ==
    {r \in Requests : /\ req[r].op = "hybrid"
                      /\ req[r].service = service
                      /\ req[r].reader # 0}

\* C15: under any interleaving of the requests on one OCR service, the
\* reader is constructed at most once, only when a request's extraction
\* fetches it, and every request is handed that same reader for all its
\* readtext calls.
C15_ReaderConstructedOnce ==
    \A service \in 1..Len(services) :
        /\ services[service].reader_inits <= 1
        /\ services[service].reader = None <=> services[service].reader_inits = 0
        /\ services[service].reader_inits = 0 <=> FetchedReader(service) = {}
        /\ \A r \in FetchedReader(service) : req[r].reader = 1
        /\ \A r \in Requests :
              /\ req[r].op = "hybrid" /\ req[r].service = service
              /\ \E i \in 1..Len(req[r].steps) : req[r].steps[i] = "readtext"
              => r \in FetchedReader(service)

\* Two requests on one service are each reading their first page, with the
\* one reader the service has constructed.
C15_Witness ==
    \E r1, r2 \in Requests :
        /\ r1 # r2
        /\ req[r1].pc = "readtext" /\ req[r2].pc = "readtext"
        /\ req[r1].service = req[r2].service
        /\ req[r1].all_pages_data = <<>> /\ req[r2].all_pages_data = <<>>
        /\ services[req[r1].service].reader_inits = 1

\* C16: a zero-page PDF is not an error: when rasterization returned no
\* page and no collaborator raised, the operation returns a result with
\* pages_processed = 0 whose structured result has only null top-level fields.
C16_EmptyDocument ==
    \A r \in Requests :
        /\ Done(r) /\ req[r].op = "hybrid" /\ req[r].fault = ""
        /\ req[r].images = 0
        => /\ req[r].outcome.kind = "return"
           /\ req[r].outcome.pages_processed = 0
           /\ \A i \in 1..Len(req[r].outcome.structured_data.kids) :
                 req[r].outcome.structured_data.kids[i].v = JNull

EmptyReply(r) == Done(r) /\ req[r].response.received /\ req[r].response.text = <<>>

\* C17: when the model returns an empty completion the operation raises the
\* empty-response failure without attempting the JSON extraction or the
\* validation, and the failure differs from that of every request that
\* failed at the JSON extraction or at the validation.
C17_EmptyResponse ==
    \A r \in Requests : EmptyReply(r) =>
        LET o == req[r].outcome
        IN  /\ o.kind = "HTTPException"
            /\ o.detail.cause = "500: Gemini returned an empty response"
            /\ \A i \in 1..Len(o.steps) :
                  o.steps[i] \notin {"extract_json", "json.loads", "validate"}
            /\ \A r2 \in Requests :
                  /\ Done(r2) /\ req[r2].response.received
                  /\ req[r2].response.text # <<>>
                  /\ \/ ReplyParsed(req[r2]).kind # "ok"
                     \/ /\ SchemaOk(SchemaOf(req[r2]))
                        /\ ~Conforms(ReplyParsed(req[r2]).val, SchemaOf(req[r2]))
                  => /\ req[r2].outcome.kind = "HTTPException"
                     /\ req[r2].outcome.detail # o.detail
                     /\ req[r2].outcome.detail.prefix # o.detail.prefix

\* One hybrid request got an empty reply and another a reply without JSON;
\* both failed.
C17_Witness ==
    \E r1, r2 \in Requests :
        /\ EmptyReply(r1) /\ req[r1].op = "hybrid"
        /\ Done(r2) /\ req[r2].op = "hybrid" /\ req[r2].response.text = <<"x">>
        /\ req[r2].outcome.detail.prefix = "Invalid JSON response from Gemini: "

\* The request called a processing operation whose client was never
\* configured: the hybrid operation, or the route of main to the Gemini
\* operation once the upload has been read and its size accepted.
Unconfigured(r) ==
    \/ req[r].op = "hybrid" /\ ~is_configured["HybridGeminiService"]
    \/ /\ req[r].op = "main" /\ ~is_configured["GeminiService"]
       /\ req[r].pc # "reading"
       /\ req[r].fault \notin {"filename", "size", "read"}

\* C18: while the client of an operation was never configured, every call
\* of the operation raises the 500 "Gemini API key not configured" before
\* any extraction, temp file, upload or model call, and leaves no temp file.
C18_NotConfigured ==
    \A r \in Requests : Unconfigured(r) =>
        /\ Done(r)
        /\ req[r].outcome.kind = "HTTPException"
        /\ req[r].outcome.status_code = 500
        /\ req[r].outcome.detail =
              [prefix |-> "Gemini API key not configured", cause |-> ""]
        /\ \A i \in 1..Len(req[r].steps) :
              req[r].steps[i] \notin {"convert_from_bytes", "readtext",
                                      "NamedTemporaryFile", "upload_file",
                                      "create_prompt", "generate_content"}
        /\ req[r].temp_file_path = NoPath
        /\ TempName(r) \notin disk

\* A service constructed without a key was asked to process a document, and
\* a request to main found no Gemini service.
C18_Witness ==
    /\ ~is_configured["HybridGeminiService"] /\ ~is_configured["GeminiService"]
    /\ Len(services) > 0
    /\ \E r1, r2 \in Requests :
          /\ req[r1].op = "hybrid" /\ Done(r1) /\ req[r1].fault = "not_configured"
          /\ req[r2].op = "main" /\ Done(r2) /\ req[r2].fault = "not_configured"

\* C23: the LLM client is configured at most once in a process, whatever
\* services of the two classes are constructed, with or without a key: at
\* the first construction with a key, and never again.
C23_ConfiguredOnce ==
    /\ configure_calls <= 1
    /\ configure_calls = 1 <=> (\E c \in ServiceClasses : is_configured[c])

\* The units of a text that are not whitespace.
C24_Dense(text) == SelectSeq(text, LAMBDA u : u \notin JsonWs)

C24_Holds(text, part) ==
    \E i \in 1..Len(text) :
        /\ i + Len(part) - 1 <= Len(text)
        /\ SubSeq(text, i, i + Len(part) - 1) = part

\* C24: on success structured_data is exactly the object parsed from the
\* model's reply; written out again it is the text of the object as the
\* model sent it, whitespace aside: the validation adds, removes and changes
\* nothing.
C24_DataAsParsed ==
    \A r \in Requests :
        Done(r) /\ req[r].outcome.kind = "return" /\ req[r].outcome.status = "success" =>
            LET q == req[r]
                data == q.outcome.structured_data
            IN  /\ q.response.received
                /\ ReplyParsed(q).kind = "ok"
                /\ data = ReplyParsed(q).val
                /\ IF q.op = "main"
                   THEN JsonText(data) = C24_Dense(q.response.text)
                   ELSE C24_Holds(C24_Dense(q.response.text), JsonText(data))

\* A hybrid request succeeded on the reply x {"a":1} and a request to main on
\* the reply {"basic_information":null, "transactions":null}.
C24_Witness ==
    \E r1, r2 \in Requests :
        /\ Done(r1) /\ req[r1].op = "hybrid" /\ req[r1].outcome.kind = "return"
        /\ req[r1].response.text = <<"x", " ">> \o ObjectText1("a", <<"1">>)
        /\ Done(r2) /\ req[r2].op = "main" /\ req[r2].outcome.status = "success"
        /\ req[r2].response.text =
              ObjectText2("basic_information", <<"null">>, "transactions", <<"null">>)

\* C27: on the Gemini route of process_document every document type, of the
\* enum or not, resolves to a schema that is not null, and no request is
\* refused for lack of a schema.
C27_SchemaForEveryType ==
    \A r \in Requests :
        req[r].op = "main" /\ req[r].pc \notin {"idle", "reading"}
        /\ req[r].fault \notin {"filename", "size", "read", "not_configured",
                                "custom_schema"} =>
            /\ req[r].fault # "no_schema"
            /\ ~Falsy(SchemaOf(req[r]))

\* ========================= claims on SpecBox ===============================
\* C11: the bounding box of a token is [min x, min y, max x, max y] of the
\* four points of its quadrilateral, whatever their order and orientation,
\* so x0 <= x1 and y0 <= y1; the box of [(1,5),(9,5),(9,20),(1,20)] is
\* [1,5,9,20].
C11_BoundingBox ==
    call_pc = "returned" =>
        LET quad == call_args.bbox
            box == call_result.bbox
        IN  /\ \A i \in 1..4 : box[1] <= quad[i][1] /\ quad[i][1] <= box[3]
            /\ \A i \in 1..4 : box[2] <= quad[i][2] /\ quad[i][2] <= box[4]
            /\ \A k \in 1..2 : \E i \in 1..4 : quad[i][k] = box[k]
            /\ \A k \in 1..2 : \E i \in 1..4 : quad[i][k] = box[k + 2]
            /\ box[1] <= box[3] /\ box[2] <= box[4]
            /\ quad \in Reorderings(ExampleQuad) => box = <<1, 5, 9, 20>>

\* The example quadrilateral, listed from its bottom-right corner against
\* its orientation, got the box [1,5,9,20].
C11_Witness ==
    /\ call_pc = "returned"
    /\ call_args.bbox = << <<9, 20>>, <<9, 5>>, <<1, 5>>, <<1, 20>> >>
    /\ call_result.bbox = <<1, 5, 9, 20>>

\* ======================= claims on SpecValidate ============================
\* The leaf fields an instance holds: those of basic_information and those
\* of each transaction.
LeavesOf(instance) ==
    LET basic == Get(instance, Key("basic_information"))
        transactions == Get(instance, Key("transactions"))
    IN  {basic.kids[i].v : i \in 1..Len(basic.kids)}
        \cup UNION {{transactions.kids[n].v.kids[i].v :
                        i \in 1..Len(transactions.kids[n].v.kids)} :
                    n \in 1..Len(transactions.kids)}

\* C12: an instance accepted against the default bank_statement schema has
\* every non-null leaf field as an object with all four keys value,
\* position, confidence and review_required.
C12_LeavesCarryFourKeys ==
    call_pc = "returned" /\ call_result.kind = "return" =>
        \A leaf \in LeavesOf(call_args.instance) :
            \/ leaf.t = "null"
            \/ leaf.t = "object" /\ \A k \in FieldValueKeys : HasKey(leaf, k)

\* C13: an instance in which a leaf field of the default bank_statement
\* schema is a bare scalar fails schema validation: the operation raises the
\* schema-validation failure and returns no success.
C13_BareScalarRejected ==
    call_pc = "returned" =>
        /\ json_loads(call_args.text).ok
        /\ json_loads(call_args.text).val = call_args.instance
        /\ (\E leaf \in LeavesOf(call_args.instance) :
               leaf.t \in {"number", "string", "boolean"}) =>
              /\ call_result.kind = "HTTPException"
              /\ call_result.detail.prefix = "Schema validation failed: "

\* The reply {"basic_information":null,"transactions":[{"balance":29293.0}]}
\* was refused.
C13_Witness ==
    /\ call_pc = "returned"
    /\ call_args.text =
          <<"{">> \o Quoted(Key("basic_information")) \o <<":", "null", ",">>
                  \o Quoted(Key("transactions")) \o <<":", "[">>
                  \o ObjectText1("balance", <<"29293.0">>) \o <<"]", "}">>
    /\ call_result.detail.prefix = "Schema validation failed: "

\* ======================= claims on SpecPrompt ==============================
\* C19: for every document_type string the system prompt is built:
\* bank_statement, invoice and receipt select the block of their name in the
\* class, every other value (auto, custom, the empty string, unknown names)
\* the default block of the class.
C19_InstructionBlock ==
    call_pc = "returned" =>
        LET document_type == call_args.document_type
            name == IF document_type \in {"bank_statement", "invoice", "receipt"}
                    THEN document_type ELSE "default"
        IN  /\ call_result.instruction = InstructionBlock(call_args.service, name)
            /\ call_result.header # ""

\* The hybrid class was asked for the prompt of the empty string and gave
\* its default block.
C19_Witness ==
    /\ call_pc = "returned"
    /\ call_args = [service |-> "HybridGeminiService", document_type |-> ""]
    /\ call_result.instruction = InstructionBlock("HybridGeminiService", "default")

====
